---- MODULE Spec2Model ----
(***************************************************************************)
(* FinanciaTracker: the transaction parsing pipeline (aiService.js) and    *)
(* the transaction store behind /api/transactions (routes/transactions.js  *)
(* over the Transaction schema).                                           *)
(*                                                                         *)
(* Strings are TLA+ strings; TLC evaluates Len, SubSeq and \o on them.     *)
(* Money is counted in hundredths (12.50 is 1250).                         *)
(***************************************************************************)
EXTENDS Integers, Sequences, FiniteSets, TLC

\* ------------------------------------------------------------------ bounds

\* Number of words a free text of a parse request is built from.
MaxWords == 2
\* Number of requests one behaviour of the store issues.
MaxRequests == 3
\* Number of ObjectIds in play.
MaxIds == 3
\* Number of items of a bulk create request.
MaxBulk == 2

\* ------------------------------------------------------- string primitives

Max(a, b) == IF a >= b THEN a ELSE b
Min(a, b) == IF a <= b THEN a ELSE b

CharAt(s, i) == SubSeq(s, i, i)

UpperChars == "ABCDEFGHIJKLMNOPQRSTUVWXYZ"
LowerChars == "abcdefghijklmnopqrstuvwxyz"
DigitChars == "0123456789"

CharsOf(alphabet) == {CharAt(alphabet, i) : i \in 1..Len(alphabet)}

\* where c stands in alphabet
IndexIn(alphabet, c) ==
  CHOOSE i \in 1..Len(alphabet) : CharAt(alphabet, i) = c

UpperSet == CharsOf(UpperChars)
DigitSet == CharsOf(DigitChars)
LowerOf == [c \in UpperSet |-> CharAt(LowerChars, IndexIn(UpperChars, c))]
DigitOf == [c \in DigitSet |-> IndexIn(DigitChars, c) - 1]

LowerChar(c) == IF c \in UpperSet THEN LowerOf[c] ELSE c

\* String.prototype.toLowerCase
RECURSIVE toLowerCase(_)
toLowerCase(s) ==
  IF Len(s) = 0 THEN ""
  ELSE IF Len(s) = 1 THEN LowerChar(s)
  ELSE LET h == Len(s) \div 2 IN
       toLowerCase(SubSeq(s, 1, h)) \o toLowerCase(SubSeq(s, h + 1, Len(s)))

\* String.prototype.includes
includes(s, k) ==
  \E i \in 1..(Len(s) - Len(k) + 1) : SubSeq(s, i, i + Len(k) - 1) = k

\* String.prototype.substring(0, n)
substring0(s, n) == SubSeq(s, 1, Min(Len(s), n))

\* String.prototype.trim, and the schema option trim: true
RECURSIVE trimStart(_)
trimStart(s) ==
  IF s # "" /\ Head(s) = " " THEN trimStart(Tail(s)) ELSE s
RECURSIVE trimEnd(_)
trimEnd(s) ==
  IF s # "" /\ CharAt(s, Len(s)) = " "
  THEN trimEnd(SubSeq(s, 1, Len(s) - 1)) ELSE s
trim(s) == trimEnd(trimStart(s))

RECURSIVE Repeat(_, _)
Repeat(c, n) ==
  IF n = 0 THEN ""
  ELSE IF n % 2 = 0 THEN LET h == Repeat(c, n \div 2) IN h \o h
  ELSE c \o Repeat(c, n - 1)

IsDigit(c) == c \in DigitSet
DigitVal(c) == DigitOf[c]

\* the value of a string of digits
RECURSIVE DigitsVal(_)
DigitsVal(s) ==
  IF s = "" THEN 0
  ELSE DigitsVal(SubSeq(s, 1, Len(s) - 1)) * 10 + DigitVal(CharAt(s, Len(s)))

\* length of the run of digits of s that starts at position i (\d+ is greedy)
RECURSIVE DigitRun(_, _)
DigitRun(s, i) ==
  IF i <= Len(s) /\ IsDigit(CharAt(s, i)) THEN 1 + DigitRun(s, i + 1) ELSE 0

\* ------------------------------------------------------------- JS values

\* A JSON / JavaScript value: k is its kind, s its text when a string, n its
\* number (in hundredths) when a number.
JUndef == [k |-> "undef", s |-> "", n |-> 0]
JNull == [k |-> "null", s |-> "", n |-> 0]
JStr(s) == [k |-> "str", s |-> s, n |-> 0]
JNum(n) == [k |-> "num", s |-> "", n |-> n]
JTrue == [k |-> "bool", s |-> "", n |-> 1]

\* ToBoolean
Truthy(v) ==
  CASE v.k = "undef" -> FALSE
    [] v.k = "null" -> FALSE
    [] v.k = "str" -> v.s # ""
    [] v.k = "num" -> v.n # 0
    [] OTHER -> TRUE

\* -------------------------------------------------- aiService.js: taxonomy

COMMON_CATEGORIES ==
  << "Food & Dining", "Gas & Fuel", "Groceries", "Shopping", "Entertainment",
     "Bills & Utilities", "Travel", "Healthcare", "Education",
     "Transportation", "Salary", "Freelance", "Investment", "Business",
     "Gift", "Other" >>

Taxonomy == {COMMON_CATEGORIES[i] : i \in 1..Len(COMMON_CATEGORIES)}

incomeKeywords ==
  << "salary", "income", "received", "deposit", "bonus", "wage", "paycheck",
     "freelance" >>

\* the entries of the object literal, in insertion order
categoryKeywords ==
  << [cat |-> "Food & Dining",
      keywords |-> << "restaurant", "dining", "food", "lunch", "dinner",
                      "breakfast", "cafe", "coffee", "pizza", "burger",
                      "mcdonald", "kfc", "subway", "starbucks", "domino",
                      "delivery" >>],
     [cat |-> "Gas & Fuel",
      keywords |-> << "gas", "fuel", "petrol", "diesel", "shell", "bp",
                      "exxon", "chevron", "station" >>],
     [cat |-> "Groceries",
      keywords |-> << "grocery", "supermarket", "walmart", "target", "costco",
                      "kroger", "safeway", "market", "food shopping" >>],
     [cat |-> "Shopping",
      keywords |-> << "amazon", "shopping", "store", "retail", "clothing",
                      "electronics", "mall", "online", "purchase" >>],
     [cat |-> "Entertainment",
      keywords |-> << "movie", "netflix", "spotify", "gaming", "steam",
                      "entertainment", "subscription", "streaming", "concert",
                      "theater" >>],
     [cat |-> "Bills & Utilities",
      keywords |-> << "electric", "electricity", "water", "internet", "phone",
                      "utility", "bill", "cable", "mobile" >>],
     [cat |-> "Travel",
      keywords |-> << "hotel", "flight", "airplane", "vacation", "travel",
                      "booking", "airbnb", "uber", "taxi" >>],
     [cat |-> "Transportation",
      keywords |-> << "uber", "taxi", "bus", "train", "metro", "transport",
                      "parking", "toll" >>],
     [cat |-> "Healthcare",
      keywords |-> << "doctor", "medical", "pharmacy", "hospital", "health",
                      "medicine", "clinic" >>],
     [cat |-> "Education",
      keywords |-> << "course", "education", "book", "tuition", "school",
                      "university", "training" >>] >>

\* the characters the amount pattern allows before the digits
CurrencyGlyphs == {"$", "₹", "€", "£", "¥"}

\* keywords.some(keyword => lowerText.includes(keyword))
SomeKeyword(keywords, lowerText) ==
  \E j \in 1..Len(keywords) : includes(lowerText, keywords[j])

\* ---------------------------------------- aiService.js: the fallback parser

\* text.match(/[\$₹€£¥]?(\d+(?:\.\d{2})?)/): the positions where the pattern
\* matches are those of a digit, and those of a glyph followed by a digit.
MatchesAt(text, i) ==
  \/ IsDigit(CharAt(text, i))
  \/ /\ CharAt(text, i) \in CurrencyGlyphs
     /\ i < Len(text)
     /\ IsDigit(CharAt(text, i + 1))

\* parseFloat(amountMatch[1]) in hundredths, 0 when there is no match
\* the leftmost position where the pattern matches, 0 when there is none
firstMatch(text) ==
  LET hits == {i \in 1..Len(text) : MatchesAt(text, i)} IN
  IF hits = {} THEN 0 ELSE CHOOSE i \in hits : \A j \in hits : i <= j

amountMatch(text) ==
  IF firstMatch(text) = 0 THEN 0
  ELSE
    LET m == firstMatch(text)
        d == IF IsDigit(CharAt(text, m)) THEN m ELSE m + 1
        run == DigitRun(text, d)
        e == d + run
        hasFraction == /\ e + 2 <= Len(text)
                       /\ CharAt(text, e) = "."
                       /\ IsDigit(CharAt(text, e + 1))
                       /\ IsDigit(CharAt(text, e + 2))
    IN DigitsVal(SubSeq(text, d, e - 1)) * 100
       + (IF hasFraction THEN DigitsVal(SubSeq(text, e + 1, e + 2)) ELSE 0)

\* the for ... of loop over Object.entries(categoryKeywords), with its break
RECURSIVE detectCategoryFrom(_, _)
detectCategoryFrom(lowerText, i) ==
  IF i > Len(categoryKeywords) THEN "Other"
  ELSE IF SomeKeyword(categoryKeywords[i].keywords, lowerText)
       THEN categoryKeywords[i].cat
       ELSE detectCategoryFrom(lowerText, i + 1)

\* the label in the case of the text it was found in
detectCategoryLower(lowerText) == toLowerCase(detectCategoryFrom(lowerText, 1))

detectCategory(lowerText) == detectCategoryFrom(lowerText, 1)

\* A parser result: ok is FALSE when the call threw instead of returning.
Threw ==
  [ok |-> FALSE, amount |-> 0, description |-> JUndef, category |-> "",
   type |-> "", date |-> ""]

\* simpleParseTransaction(text); text is the JS value handed in, today is
\* new Date().toISOString().split("T")[0]. text.match of a value that is not
\* a string is a TypeError.
simpleParseTransaction(text, today) ==
  IF text.k # "str" THEN Threw
  ELSE
    LET lowerText == toLowerCase(text.s) IN
    [ok |-> TRUE,
     amount |-> amountMatch(text.s),
     description |-> JStr(substring0(text.s, 100)),
     category |-> detectCategory(lowerText),
     type |-> IF SomeKeyword(incomeKeywords, lowerText)
              THEN "income" ELSE "expense",
     date |-> today]

\* ------------------------------------- aiService.js: the AI parser adapter

\* parseFloat of a string: leading blanks, a sign, digits, a fraction (kept
\* to hundredths). nan is TRUE when no number starts the string.
parseFloatStr(str) ==
  LET t == trimStart(str)
      signed == t # "" /\ Head(t) \in {"-", "+"}
      u == IF signed THEN Tail(t) ELSE t
      run == DigitRun(u, 1)
      hasPoint == run < Len(u) /\ CharAt(u, run + 1) = "."
      frac == IF hasPoint THEN DigitRun(u, run + 2) ELSE 0
      cents == IF frac = 0 THEN 0
               ELSE IF frac = 1 THEN DigitVal(CharAt(u, run + 2)) * 10
               ELSE DigitsVal(SubSeq(u, run + 2, run + 3))
      mag == DigitsVal(SubSeq(u, 1, run)) * 100 + cents
  IN IF run = 0 /\ frac = 0 THEN [nan |-> TRUE, v |-> 0]
     ELSE [nan |-> FALSE,
           v |-> IF signed /\ Head(t) = "-" THEN 0 - mag ELSE mag]

\* parseFloat(value): a number is itself, a string is parsed, anything else
\* is NaN
parseFloat(value) ==
  CASE value.k = "num" -> [nan |-> FALSE, v |-> value.n]
    [] value.k = "str" -> parseFloatStr(value.s)
    [] OTHER -> [nan |-> TRUE, v |-> 0]

\* parseFloat(x) || 0: the sign of the amount kept
signedOrZero(value) ==
  LET f == parseFloat(value) IN IF f.nan THEN 0 ELSE f.v

\* Math.abs(parseFloat(x)) || 0
absOrZero(value) ==
  LET f == parseFloat(value) IN
  IF f.nan THEN 0 ELSE IF f.v < 0 THEN 0 - f.v ELSE f.v

\* isValidDate(dateString): /^\d{4}-\d{2}-\d{2}$/ and a Date that is not NaN.
\* The engine's parser of this form takes months 01..12 and days 01..31.
isValidDate(dateString) ==
  /\ Truthy(dateString)
  /\ dateString.k = "str"
  /\ LET d == dateString.s IN
     /\ Len(d) = 10
     /\ \A i \in {1, 2, 3, 4, 6, 7, 9, 10} : IsDigit(CharAt(d, i))
     /\ CharAt(d, 5) = "-" /\ CharAt(d, 8) = "-"
     /\ DigitsVal(SubSeq(d, 6, 7)) \in 1..12
     /\ DigitsVal(SubSeq(d, 9, 10)) \in 1..31

\* cat.toLowerCase() of every taxonomy entry
lowerCategories == [cat \in Taxonomy |-> toLowerCase(cat)]

\* cat => cat.toLowerCase() === lowerCategory
\*        || cat.toLowerCase().includes(lowerCategory)
\*        || lowerCategory?.includes(cat.toLowerCase())
\* lowerCategory is a string or undefined; includes(undefined) searches for
\* the text "undefined".
closeMatch(cat, lowerCategory) ==
  LET lc == lowerCategories[cat] IN
  IF lowerCategory.k = "str"
  THEN \/ lc = lowerCategory.s
       \/ includes(lc, lowerCategory.s)
       \/ includes(lowerCategory.s, lc)
  ELSE includes(lc, "undefined")

\* COMMON_CATEGORIES.find(closeMatch); "" when find returns undefined
RECURSIVE findCloseMatchFrom(_, _)
findCloseMatchFrom(lowerCategory, i) ==
  IF i > Len(COMMON_CATEGORIES) THEN ""
  ELSE IF closeMatch(COMMON_CATEGORIES[i], lowerCategory)
       THEN COMMON_CATEGORIES[i]
       ELSE findCloseMatchFrom(lowerCategory, i + 1)

findCloseMatch(lowerCategory) == findCloseMatchFrom(lowerCategory, 1)

\* The value JSON.parse gave for the model's answer. shape is "null", "obj",
\* or "other" (a number, a string, a boolean, an array: every property read
\* below is undefined); the fields are those of an object.
emptyAnswer(shape) ==
  [shape |-> shape, amount |-> JUndef, description |-> JUndef,
   category |-> JUndef, type |-> JUndef, date |-> JUndef]

\* enhanceTransaction(transaction, originalText)
enhanceTransaction(transaction, originalText, today) ==
  IF transaction.shape = "null" THEN Threw   \* transaction.category of null
  ELSE
    LET c == transaction.category
        exact == Truthy(c) /\ c.k = "str" /\ c.s \in Taxonomy
        \* transaction.category?.toLowerCase()
        lowerThrows == ~exact /\ c.k \notin {"undef", "null", "str"}
        lowerCategory == IF c.k = "str" THEN JStr(toLowerCase(c.s)) ELSE JUndef
        match == findCloseMatch(lowerCategory)
        fallback == simpleParseTransaction(originalText, today)
        \* transaction.description || originalText.substring(0, 100)
        needsText == ~Truthy(transaction.description)
    IN
    IF lowerThrows THEN Threw
    ELSE IF ~exact /\ match = "" /\ ~fallback.ok THEN Threw
    ELSE IF needsText /\ originalText.k # "str" THEN Threw
    ELSE
      [ok |-> TRUE,
       amount |-> absOrZero(transaction.amount),
       description |-> IF needsText
                       THEN JStr(substring0(originalText.s, 100))
                       ELSE transaction.description,
       category |-> IF exact THEN c.s
                    ELSE IF match # "" THEN match
                    ELSE fallback.category,
       type |-> IF transaction.type.k = "str"
                   /\ transaction.type.s \in {"income", "expense"}
                THEN transaction.type.s ELSE "expense",
       date |-> IF isValidDate(transaction.date)
                THEN transaction.date.s ELSE today]

\* What the external model call does: "throw" (generateContent or
\* response.text() rejects), "badjson" (JSON.parse throws), "json" (answer is
\* the parsed value).
\* parseTransactionWithAI(text): the result and the number of requests made
\* to the external model. hasGenAI is genAI !== null.
parseTransactionWithAI(hasGenAI, text, outcome, today) ==
  LET fallback == simpleParseTransaction(text, today) IN
  IF ~hasGenAI
  THEN \* a throw of the try block lands in catch, which parses again
       [result |-> fallback, calls |-> 0]
  ELSE IF outcome.kind = "throw" THEN [result |-> fallback, calls |-> 1]
  ELSE IF outcome.kind = "badjson" THEN [result |-> fallback, calls |-> 1]
  ELSE LET enhanced == enhanceTransaction(outcome.answer, text, today) IN
       [result |-> IF enhanced.ok THEN enhanced ELSE fallback, calls |-> 1]

\* ------------------------------------------------- express-validator

\* Number.prototype.toString of a count of hundredths
RECURSIVE NatStr(_)
NatStr(n) ==
  IF n < 10 THEN CharAt(DigitChars, n + 1)
  ELSE NatStr(n \div 10) \o CharAt(DigitChars, (n % 10) + 1)
NumStr(n) ==
  LET a == IF n < 0 THEN 0 - n ELSE n
      whole == NatStr(a \div 100)
      cents == a % 100
      frac == IF cents = 0 THEN ""
              ELSE IF cents % 10 = 0 THEN "." \o NatStr(cents \div 10)
              ELSE "." \o NatStr(cents \div 10) \o NatStr(cents % 10)
  IN (IF n < 0 THEN "-" ELSE "") \o whole \o frac

\* The validators run on the string form of the field: undefined and null
\* are "", a number is its decimal text.
toString(value) ==
  CASE value.k = "str" -> value.s
    [] value.k = "num" -> NumStr(value.n)
    [] OTHER -> ""

\* ------------------------------------------- POST /api/transactions/parse

\* body("text").notEmpty().isLength({ max: 500 }): the messages of the
\* validators that fail
parseValidation(text) ==
  {m \in {"Text is required", "Text must be less than 500 characters"} :
     \/ m = "Text is required" /\ toString(text) = ""
     \/ /\ m = "Text must be less than 500 characters"
        /\ Len(toString(text)) > 500}

\* the words free texts are built from
Words == << "Salary", "Lunch", " gas", "Uber ", " $", "12.50", " 7.5" >>

RECURSIVE Concat(_, _)
Concat(ws, n) == IF n = 0 THEN "" ELSE Concat(ws, n - 1) \o Words[ws[n]]

WordTexts ==
  UNION {{Concat(ws, n) : ws \in [1..n -> 1..Len(Words)]} : n \in 1..MaxWords}

\* a text of n characters
LongText(n) == "salary lunch" \o Repeat("a", n - 12)

\* req.body.text: free texts, the limits of the length check, a text longer
\* than the description cut, and JSON values that are not strings
ParseTexts ==
  {JStr(t) : t \in WordTexts}
    \cup {JStr(""), JStr(LongText(500)), JStr(LongText(501)),
          JStr(LongText(120)), JStr("Salary deposit $3000"),
          JStr("Lunch at McDonald's $12.50"), JStr("Gas station $45"),
          JStr("Bus to doctor $20"),
          JNum(1234500), JUndef, JNull}

AnswerAmounts == {JUndef, JNum(0 - 1250), JStr("abc"), JStr("12.5")}
AnswerDescriptions == {JUndef, JStr("Team lunch")}
AnswerCategories ==
  {JUndef, JNull, JStr(""), JStr("Groceries"), JStr("groceries"),
   JStr("food"), JStr("Fine Food & Dining out"), JStr("Pets"), JNum(500)}
AnswerTypes == {JUndef, JStr("income"), JStr("transfer")}
AnswerDates == {JUndef, JStr("2024-01-15"), JStr("2024-13-45")}

\* The answers of the model: a value that is no object, every category with
\* the other fields as asked for, and every combination of the other fields.
Answers ==
  {emptyAnswer("null"), emptyAnswer("other")}
    \cup [shape : {"obj"}, amount : {JNum(1250)},
          description : {JStr("Team lunch")}, category : AnswerCategories,
          type : {JStr("expense")}, date : {JStr("2024-01-15")}]
    \cup [shape : {"obj"}, amount : AnswerAmounts,
          description : AnswerDescriptions, category : {JStr("Groceries")},
          type : AnswerTypes, date : AnswerDates]

NoCall == [kind |-> "none", answer |-> emptyAnswer("other")]
Outcomes ==
  {[kind |-> "throw", answer |-> emptyAnswer("other")],
   [kind |-> "badjson", answer |-> emptyAnswer("other")]}
    \cup [kind : {"json"}, answer : Answers]

\* process.env.GEMINI_API_KEY: not set, the placeholder, a key
ApiKeys == {"", "your-gemini-api-key-here", "AIza-key"}
Todays == {"2024-06-15"}

VARIABLES
  GEMINI_API_KEY,  \* process.env.GEMINI_API_KEY
  genAI,           \* TRUE when the module holds a client, FALSE for null
  today,           \* the current date, as toISOString().split("T")[0]
  parse            \* the parse request in hand and its response

parseVars == <<GEMINI_API_KEY, genAI, today, parse>>

NoParse ==
  [status |-> 0, text |-> JUndef, outcome |-> NoCall, result |-> Threw,
   calls |-> 0, details |-> {}]

\* a client for every key that is set, the placeholder too
initGenAIAnyKey(key, constructorThrows) == key # "" /\ ~constructorThrows

\* module initialisation: a client only for a key that is set and is not the
\* placeholder; the constructor's throw is caught and leaves null
initGenAI(key, constructorThrows) ==
  /\ key # "" /\ key # "your-gemini-api-key-here"
  /\ ~constructorThrows

InitParse ==
  /\ GEMINI_API_KEY \in ApiKeys
  /\ \E constructorThrows \in BOOLEAN :
       genAI = initGenAI(GEMINI_API_KEY, constructorThrows)
  /\ today \in Todays
  /\ parse = NoParse

\* router.post("/parse", ...): validation, then the handler
ParseRequest ==
  /\ parse.status = 0
  /\ \E text \in ParseTexts :
     \E outcome \in (IF genAI THEN Outcomes ELSE {NoCall}) :
       LET details == parseValidation(text)
           r == parseTransactionWithAI(genAI, text, outcome, today)
       IN
       parse' =
         IF details # {}
         THEN [NoParse EXCEPT !.status = 400, !.text = text,
                              !.details = details]
         ELSE [status |-> IF r.result.ok THEN 200 ELSE 500,
               text |-> text,
               outcome |-> IF r.calls = 0 THEN NoCall ELSE outcome,
               result |-> r.result,
               calls |-> r.calls,
               details |-> {}]
  /\ UNCHANGED <<GEMINI_API_KEY, genAI, today>>

\* the response is sent; the server waits for the next request
ParseResponded ==
  /\ parse.status # 0
  /\ parse' = NoParse
  /\ UNCHANGED <<GEMINI_API_KEY, genAI, today>>

\* =========================================================================
\* The transaction store: routes/transactions.js over the Transaction schema
\* =========================================================================

\* the authenticated users (req.user._id)
Users == {"u1", "u2"}

\* ObjectIds, as numbers; 0 stands for no id
Ids == 1..MaxIds

\* req.body.tags: absent, an array of values, or a value that is no array
NoTags == [k |-> "undef", items |-> <<>>]
TagArray(items) == [k |-> "arr", items |-> items]
TagScalar == [k |-> "other", items |-> <<>>]

\* A request body. _id is 0 and inc is 0 when the body has no such key; inc is
\* the amount of {"$inc": {"amount": inc}}.
EmptyBody ==
  [_id |-> 0, userId |-> JUndef, description |-> JUndef, amount |-> JUndef,
   type |-> JUndef, category |-> JUndef, date |-> JUndef, notes |-> JUndef,
   tags |-> NoTags, inc |-> 0, aiParsed |-> JUndef, rawInput |-> JUndef]

\* ---------------------------------------------- express-validator chains

\* validator.isFloat: a sign, digits, a fraction, and nothing else
isFloatStr(str) ==
  LET signed == str # "" /\ Head(str) \in {"-", "+"}
      u == IF signed THEN Tail(str) ELSE str
      run == DigitRun(u, 1)
      hasPoint == run < Len(u) /\ CharAt(u, run + 1) = "."
      frac == IF hasPoint THEN DigitRun(u, run + 2) ELSE 0
      used == run + (IF hasPoint THEN 1 + frac ELSE 0)
  IN u # "" /\ used = Len(u) /\ run + frac > 0

\* isFloat({ min: 0.01 })
isFloatMin(value) ==
  LET str == toString(value) IN
  isFloatStr(str) /\ parseFloatStr(str).v >= 1

\* validator.isISO8601 on the forms the requests use: YYYY-MM-DD with a month
\* of 01..12 and a day of 01..31 (the check is not strict about the calendar)
isISO8601(str) ==
  /\ Len(str) = 10
  /\ \A i \in {1, 2, 3, 4, 6, 7, 9, 10} : IsDigit(CharAt(str, i))
  /\ CharAt(str, 5) = "-" /\ CharAt(str, 8) = "-"
  /\ DigitsVal(SubSeq(str, 6, 7)) \in 1..12
  /\ DigitsVal(SubSeq(str, 9, 10)) \in 1..31

\* .optional(): the chain is skipped for a field that is undefined
Present(value) == value.k # "undef"

\* body("tags").optional().isArray() and
\* body("tags.*").optional().isString().trim().isLength({ max: 30 })
tagMessages(tags) ==
  (IF tags.k = "other" THEN {"Tags must be an array"} ELSE {})
    \cup (IF \E i \in 1..Len(tags.items) :
               \/ tags.items[i].k \notin {"str", "undef"}
               \/ Len(trim(toString(tags.items[i]))) > 30
          THEN {"Each tag must be less than 30 characters"} ELSE {})

\* the sanitizer .trim() of the tags.* chain rewrites req.body.tags
sanitizeTags(tags) ==
  [tags EXCEPT !.items =
     [i \in 1..Len(tags.items) |->
        IF tags.items[i].k = "str" THEN JStr(trim(tags.items[i].s))
        ELSE tags.items[i]]]

sanitizeBody(b) == [b EXCEPT !.tags = sanitizeTags(b.tags)]

\* the chains of POST /: the messages of the validators that fail
createValidation(b) ==
  (IF toString(b.description) = "" THEN {"Description is required"} ELSE {})
    \cup (IF Len(toString(b.description)) > 200
          THEN {"Description must be less than 200 characters"} ELSE {})
    \cup (IF ~isFloatMin(b.amount)
          THEN {"Amount must be a positive number"} ELSE {})
    \cup (IF toString(b.type) \notin {"income", "expense"}
          THEN {"Type must be income or expense"} ELSE {})
    \cup (IF toString(b.category) = "" THEN {"Category is required"} ELSE {})
    \cup (IF Len(toString(b.category)) > 50
          THEN {"Category must be less than 50 characters"} ELSE {})
    \cup (IF Present(b.date) /\ ~isISO8601(toString(b.date))
          THEN {"Date must be a valid ISO date"} ELSE {})
    \cup (IF Present(b.notes) /\ Len(toString(b.notes)) > 500
          THEN {"Notes must be less than 500 characters"} ELSE {})
    \cup tagMessages(b.tags)

\* the chains of POST /bulk on one item
bulkItemValidation(b) ==
  (IF toString(b.description) = ""
   THEN {"Description is required for each transaction"} ELSE {})
    \cup (IF Len(toString(b.description)) > 200
          THEN {"Description must be less than 200 characters"} ELSE {})
    \cup (IF ~isFloatMin(b.amount)
          THEN {"Amount must be a positive number for each transaction"}
          ELSE {})
    \cup (IF toString(b.type) \notin {"income", "expense"}
          THEN {"Type must be income or expense for each transaction"}
          ELSE {})
    \cup (IF toString(b.category) = ""
          THEN {"Category is required for each transaction"} ELSE {})

\* the chains of POST /bulk: body("transactions").isArray({ min: 1 }) and the
\* wildcard chains on every item
bulkValidation(items) ==
  (IF Len(items) < 1 THEN {"Transactions array is required"} ELSE {})
    \cup UNION {bulkItemValidation(items[i]) : i \in 1..Len(items)}

\* the chains of PUT /:id on the body: every one is optional
updateValidation(b) ==
  (IF Present(b.description) /\ Len(toString(b.description)) > 200
   THEN {"Description must be less than 200 characters"} ELSE {})
    \cup (IF Present(b.amount) /\ ~isFloatMin(b.amount)
          THEN {"Amount must be a positive number"} ELSE {})
    \cup (IF Present(b.type) /\ toString(b.type) \notin {"income", "expense"}
          THEN {"Type must be income or expense"} ELSE {})
    \cup (IF Present(b.category) /\ Len(toString(b.category)) > 50
          THEN {"Category must be less than 50 characters"} ELSE {})
    \cup (IF Present(b.date) /\ ~isISO8601(toString(b.date))
          THEN {"Date must be a valid ISO date"} ELSE {})
    \cup (IF Present(b.notes) /\ Len(toString(b.notes)) > 500
          THEN {"Notes must be less than 500 characters"} ELSE {})
    \cup tagMessages(b.tags)


\* ------------------------------------------------- the Transaction schema

\* a value the schema type could not cast
JBad == [k |-> "bad", s |-> "", n |-> 0]

\* new Date(value).toISOString(), "" for an Invalid Date
newDate(str) == IF isISO8601(str) THEN str \o "T00:00:00.000Z" ELSE ""

\* new Date(): the handler's clock
nowInstant(day) == day \o "T12:00:00.000Z"

\* type: String, the trim setter left out
castUntrimmed(value) ==
  CASE value.k = "str" -> value
    [] value.k = "num" -> JStr(NumStr(value.n))
    [] value.k \in {"undef", "null"} -> JUndef
    [] OTHER -> JBad

\* type: String with trim: true
castTrimmed(value) ==
  CASE value.k = "str" -> JStr(trim(value.s))
    [] value.k = "num" -> JStr(NumStr(value.n))
    [] value.k \in {"undef", "null"} -> JUndef
    [] OTHER -> JBad

\* type: String
castString(value) ==
  CASE value.k = "str" -> value
    [] value.k = "num" -> JStr(NumStr(value.n))
    [] value.k \in {"undef", "null"} -> JUndef
    [] OTHER -> JBad

\* type: Number
castNumber(value) ==
  CASE value.k = "num" -> value
    [] value.k = "str" ->
         IF isFloatStr(value.s) THEN JNum(parseFloatStr(value.s).v) ELSE JBad
    [] value.k \in {"undef", "null"} -> JUndef
    [] OTHER -> JBad

\* type: Date, of the value the handlers build with new Date(req.body.date)
castDate(value) ==
  CASE value.k \in {"undef", "null"} -> JUndef
    [] value.k = "str" /\ newDate(value.s) # "" -> JStr(newDate(value.s))
    [] OTHER -> JBad

\* tags: [{ type: String, trim: true, lowercase: true }]
castTags(tags) ==
  [i \in 1..Len(tags.items) |-> toLowerCase(trim(toString(tags.items[i])))]

\* the paths of the schema a request body sets, after casting and setters
castBody(b) ==
  [description |-> castTrimmed(b.description),
   amount |-> castNumber(b.amount),
   type |-> castString(b.type),
   category |-> castTrimmed(b.category),
   date |-> castDate(b.date),
   notes |-> castString(b.notes),
   tags |-> castTags(b.tags)]

\* required: true on a String path fails for a missing and for an empty value
Missing(value) == value.k = "undef" \/ (value.k = "str" /\ value.s = "")

\* The paths that fail cast or validation when a document is saved
\* (required, maxlength, min, enum).
documentErrors(c) ==
  {path \in {"description", "amount", "type", "category", "date", "notes"} :
     \/ path = "description"
          /\ (c.description.k = "bad" \/ Missing(c.description)
              \/ Len(c.description.s) > 200)
     \/ path = "amount"
          /\ (c.amount.k # "num" \/ c.amount.n < 1)
     \/ path = "type"
          /\ (c.type.k # "str" \/ c.type.s \notin {"income", "expense"})
     \/ path = "category"
          /\ (c.category.k = "bad" \/ Missing(c.category))
     \/ path = "date" /\ c.date.k # "str"
     \/ path = "notes"
          /\ (c.notes.k = "bad"
              \/ (c.notes.k = "str" /\ Len(c.notes.s) > 500))}

\* The paths that fail with runValidators: true: the validators run on the
\* paths the update sets, and on no operator but $set.
updateErrors(b, c) ==
  {path \in {"description", "amount", "type", "category", "date", "notes"} :
     \/ path = "description" /\ Present(b.description)
          /\ (c.description.k = "bad" \/ Missing(c.description)
              \/ Len(c.description.s) > 200)
     \/ path = "amount" /\ Present(b.amount)
          /\ (c.amount.k # "num" \/ c.amount.n < 1)
     \/ path = "type" /\ Present(b.type)
          /\ (c.type.k # "str" \/ c.type.s \notin {"income", "expense"})
     \/ path = "category" /\ Present(b.category)
          /\ (c.category.k = "bad" \/ Missing(c.category))
     \/ path = "date" /\ Present(b.date) /\ c.date.k # "str"
     \/ path = "notes" /\ Present(b.notes)
          /\ (c.notes.k = "bad"
              \/ (c.notes.k = "str" /\ Len(c.notes.s) > 500))}

\* { ...body, userId, date: body.date ? new Date(body.date) : new Date() }
\* as the schema casts it
candidate(b, now) ==
  [castBody(b) EXCEPT
     !.date = IF Truthy(b.date) THEN castDate(b.date) ELSE JStr(now)]

\* new Transaction(transactionData): the document that is stored; the defaults
\* of the schema fill notes and tags
newDocument(b, id, userId, now) ==
  LET c == candidate(b, now) IN
  [_id |-> id,
   userId |-> userId,
   description |-> c.description.s,
   amount |-> c.amount.n,
   type |-> c.type.s,
   category |-> c.category.s,
   date |-> c.date.s,
   notes |-> IF c.notes.k = "str" THEN c.notes ELSE JNull,
   tags |-> c.tags,
   aiParsed |-> b.aiParsed = JTrue,
   rawInput |-> IF b.rawInput.k = "str" THEN b.rawInput ELSE JNull,
   createdAt |-> now]

\* the update { ...req.body } applied to a stored document
applyUpdate(doc, b) ==
  LET c == castBody(b) IN
  [_id |-> doc._id,
   userId |-> IF Present(b.userId) THEN b.userId.s ELSE doc.userId,
   description |-> IF Present(b.description)
                   THEN c.description.s ELSE doc.description,
   amount |-> (IF Present(b.amount) THEN c.amount.n ELSE doc.amount) + b.inc,
   type |-> IF Present(b.type) THEN c.type.s ELSE doc.type,
   category |-> IF Present(b.category) THEN c.category.s ELSE doc.category,
   date |-> IF Truthy(b.date) THEN c.date.s ELSE doc.date,
   notes |-> IF Present(b.notes) THEN c.notes ELSE doc.notes,
   tags |-> IF b.tags.k = "arr" THEN c.tags ELSE doc.tags,
   aiParsed |-> IF Present(b.aiParsed) THEN b.aiParsed = JTrue
                ELSE doc.aiParsed,
   rawInput |-> IF b.rawInput.k = "str" THEN b.rawInput ELSE doc.rawInput,
   createdAt |-> doc.createdAt]


\* ----------------------------------------------------- the request bodies

\* a body POST / accepts
BaseBody ==
  [EmptyBody EXCEPT !.description = JStr("Rent"), !.amount = JNum(1250),
                    !.type = JStr("expense"), !.category = JStr("Food")]

\* base with one key set, replaced or taken away
Edits(base, descs, amounts, types, cats, dates, notes, tags, userIds, ids, incs) ==
  {base}
    \cup {[base EXCEPT !.description = v] : v \in descs}
    \cup {[base EXCEPT !.amount = v] : v \in amounts}
    \cup {[base EXCEPT !.type = v] : v \in types}
    \cup {[base EXCEPT !.category = v] : v \in cats}
    \cup {[base EXCEPT !.date = v] : v \in dates}
    \cup {[base EXCEPT !.notes = v] : v \in notes}
    \cup {[base EXCEPT !.tags = v] : v \in tags}
    \cup {[base EXCEPT !.userId = v] : v \in userIds}
    \cup {[base EXCEPT !._id = v] : v \in ids}
    \cup {[base EXCEPT !.inc = v] : v \in incs}

\* The bodies of the requests of ValidationSpec: every way to break a
\* constraint, one key at a time.
AllCreateBodies ==
  Edits(BaseBody,
        {JUndef, JStr(""), JStr("  "), JStr(" Rent "), JStr(Repeat("d", 200)),
         JStr(Repeat("d", 201))},
        {JUndef, JNum(0), JNum(0 - 500), JNum(1), JStr("abc")},
        {JUndef, JStr("income"), JStr("transfer")},
        {JUndef, JStr(""), JStr(" "), JStr(" Misc "), JStr(Repeat("c", 51))},
        {JStr("2024-01-15"), JStr("tomorrow")},
        {JStr("memo"), JStr(Repeat("n", 501))},
        {TagArray(<<>>), TagArray(<<JStr("Food"), JStr(" home ")>>),
         TagArray(<<JStr(Repeat("t", 31))>>), TagScalar},
        {JStr("u1"), JStr("u2")},
        Ids,
        {})

AllBulkItems ==
  Edits(BaseBody,
        {JUndef, JStr(" "), JStr(""), JStr(Repeat("d", 201))},
        {JNum(0)},
        {JStr("transfer")},
        {JStr(""), JStr(Repeat("c", 51))},
        {JStr("tomorrow")},
        {JStr(Repeat("n", 501))},
        {TagArray(<<JStr(Repeat("t", 31))>>)},
        {},
        {},
        {})

AllUpdateBodies ==
  Edits(EmptyBody,
        {JStr(""), JStr(" Taxi "), JStr(Repeat("d", 201))},
        {JNum(0), JNum(500)},
        {JStr("income"), JStr("transfer")},
        {JStr(""), JStr("Travel"), JStr(Repeat("c", 51))},
        {JStr("2024-01-15"), JStr("tomorrow")},
        {JStr("memo"), JStr(Repeat("n", 501))},
        {TagArray(<<JStr("Food")>>), TagScalar},
        {JStr("u1"), JStr("u2")},
        {},
        {0 - 2000})

\* The bodies of the requests of Spec, which follows sequences of requests.
CreateBodies ==
  Edits(BaseBody,
        {JStr("  "), JStr(" Rent ")},
        {JNum(0)},
        {JStr("income")},
        {},
        {JStr("2024-01-15")},
        {},
        {TagArray(<<JStr("Food"), JStr(" home ")>>)},
        {JStr("u2")},
        Ids,
        {})

BulkItems == Edits(BaseBody, {}, {}, {}, {}, {}, {}, {}, {}, Ids, {})

UpdateBodies ==
  Edits(EmptyBody,
        {JStr(""), JStr(" Taxi ")},
        {JNum(500)},
        {},
        {},
        {},
        {},
        {},
        {JStr("u1"), JStr("u2")},
        {},
        {0 - 2000})

\* the arrays of a bulk request
Arrays(items) == UNION {[1..n -> items] : n \in 0..MaxBulk}

\* ------------------------------------------------------- the store's state

VARIABLES
  transactions,  \* the documents of the Transaction collection
  usedIds,       \* the ObjectIds handed out or stored so far
  created,       \* per id: who created the stored document, and from what
  deleted,       \* the ids of the documents that were deleted
  request,       \* the request in hand
  response,      \* and its response
  requests,      \* how many requests were made
  analytics,     \* the analytics request in hand and its response
  users,         \* the documents of the User collection
  auth,          \* what authenticateToken or the OAuth callback answered
  db,            \* the connection to MongoDB and the timer of connectDB
  input,         \* TransactionInput: the parsed transaction it holds
  scanner,       \* OCRScanner: its state
  editor,        \* TransactionsPage and EditTransactionModal: their state
  listing        \* the pages of GET / that a client fetched

storeVars ==
  <<transactions, usedIds, created, deleted, request, response, requests>>
uiVars == <<input, scanner, editor, listing>>
restVars == <<users, auth, db, input, scanner, editor, listing>>
vars == <<GEMINI_API_KEY, genAI, today, parse, transactions, usedIds, created,
          deleted, request, response, requests, analytics, users, auth, db, input, scanner, editor,
          listing>>

NoRequest ==
  [op |-> "none", user |-> "", id |-> 0, body |-> EmptyBody, items |-> <<>>]
NoResponse ==
  [status |-> 0, error |-> "", message |-> "", details |-> {}, docs |-> <<>>]
NotCreated == [by |-> "", body |-> EmptyBody, untouched |-> FALSE]

\* req.query: every value is a text or is absent
NoQuery ==
  [period |-> JUndef, type |-> JUndef, groupBy |-> JUndef,
   startDate |-> JUndef, endDate |-> JUndef]

\* no analytics request in hand
NoAnalytics ==
  [op |-> "none", user |-> "", query |-> NoQuery, status |-> 0,
   details |-> {}]

\* a User document; _id stands for the ObjectId
User(id, googleId, email, name, picture, lastLogin) ==
  [_id |-> id, googleId |-> googleId, email |-> email, name |-> name,
   picture |-> picture, lastLogin |-> lastLogin]

\* the accounts of an earlier run: each signed in once with its own identity
SeedUsers ==
  {User("u1", "g1", "ann@x.io", "Ann", JStr("ann.png"), "2024-06-01T12:00:00.000Z"),
   User("u2", "g2", "bob@x.io", "Bob", JNull, "2024-06-01T12:00:00.000Z")}

\* no Authorization header, no token
NoToken == [form |-> "none", secret |-> FALSE, expired |-> FALSE, userId |-> ""]
NoHeader == [words |-> 0, scheme |-> "", token |-> NoToken]

NoPayload ==
  [code |-> FALSE, googleId |-> "", email |-> "", name |-> JUndef,
   picture |-> JUndef, email_verified |-> FALSE]

\* no request went through the middleware or the callback
NoAuth ==
  [op |-> "none", header |-> NoHeader, payload |-> NoPayload, next |-> FALSE,
   findFails |-> FALSE, status |-> 0, error |-> "", message |-> "",
   user |-> ""]

\* before the server called connectDB()
NoDb == [attempts |-> 0, failures |-> 0, connected |-> FALSE, timer |-> FALSE]

\* useState(null) of parsedTransaction; text is the text it was parsed from,
\* sent that a confirmation is on its way
NoInput ==
  [held |-> FALSE, parsed |-> Threw, text |-> JUndef, sent |-> FALSE,
   parses |-> 0]

\* OCRScanner as it is mounted: useState(false), useState(null),
\* useState(false); passed is what onTransactionParsed was called with
\* ocr and parse tell how the recognition and the parse request ended
NoScan ==
  [isProcessing |-> FALSE, error |-> "", success |-> FALSE,
   extractedText |-> "", ocr |-> "none", parse |-> "none", passed |-> FALSE,
   transaction |-> Threw, scans |-> 0]

\* formData of EditTransactionModal
NoForm ==
  [description |-> "", category |-> "", amount |-> "", type |-> "",
   date |-> ""]

\* TransactionsPage before it is mounted: no rows, no transaction being
\* edited; savedId and savedForm are what the last handleSubmit logged
NoEdit ==
  [user |-> "", rows |-> {}, editing |-> 0, formData |-> NoForm,
   savedId |-> 0, savedForm |-> NoForm, refreshTrigger |-> 0]

\* the pages of the answers that GET / can give
MaxPage == 3

\* req.query of GET /
NoListQuery == [page |-> JUndef, limit |-> JUndef, type |-> JUndef]

NoPage ==
  [status |-> 0, transactions |-> <<>>, currentPage |-> 0, totalPages |-> 0,
   totalTransactions |-> 0, hasNextPage |-> FALSE, hasPrevPage |-> FALSE,
   limit |-> 0]

\* no page fetched; owner and query are those of the pages that are kept
NoListing ==
  [owner |-> "", query |-> NoListQuery, pages |-> [p \in 1..MaxPage |-> NoPage]]

\* the components as they are mounted
UiIdle ==
  /\ input = NoInput
  /\ scanner = NoScan
  /\ editor = NoEdit
  /\ listing = NoListing

RestIdle ==
  /\ users = SeedUsers
  /\ auth = NoAuth
  /\ db = NoDb
  /\ UiIdle

\* the collection is empty
InitStore ==
  /\ transactions = {}
  /\ usedIds = {}
  /\ created = [i \in Ids |-> NotCreated]
  /\ deleted = {}
  /\ request = NoRequest
  /\ response = NoResponse
  /\ requests = 0
  /\ analytics = NoAnalytics
  /\ RestIdle

\* handleValidationErrors
validationError(details) ==
  [status |-> 400, error |-> "Validation Error",
   message |-> "Invalid input data", details |-> details, docs |-> <<>>]

notFound ==
  [status |-> 404, error |-> "Not Found",
   message |-> "Transaction not found", details |-> {}, docs |-> <<>>]

serverError(message) ==
  [status |-> 500, error |-> "Server Error", message |-> message,
   details |-> {}, docs |-> <<>>]

success(status, message, docs) ==
  [status |-> status, error |-> "", message |-> message, details |-> {},
   docs |-> docs]

\* param("id").isMongoId(); 0 stands for a text that is no ObjectId
idValidation(id) == IF id = 0 THEN {"Invalid transaction ID"} ELSE {}

\* Model.findOne({ _id: id, userId })
findOne(id, userId) == {d \in transactions : d._id = id /\ d.userId = userId}

StoredIds == {d._id : d \in transactions}

\* a request arrives while the server is idle
Idle == request.op = "none" /\ requests < MaxRequests

\* the least of a set of ids
Least(S) == CHOOSE i \in S : \A j \in S : i <= j

\* ------------------------------------------------------------ GET /:id

GetTransaction(ids) ==
  /\ Idle
  /\ \E user \in Users, id \in ids :
       /\ request' = [NoRequest EXCEPT !.op = "get", !.user = user, !.id = id]
       /\ response' =
            IF idValidation(id) # {} THEN validationError(idValidation(id))
            ELSE IF findOne(id, user) = {} THEN notFound
            ELSE success(200, "", <<CHOOSE d \in findOne(id, user) : TRUE>>)
  /\ requests' = requests + 1
  /\ UNCHANGED <<transactions, usedIds, created, deleted>>

\* ------------------------------------------------------------- POST /

CreateTransaction(bodies) ==
  /\ Idle
  /\ \E user \in Users, b \in bodies :
       LET details == createValidation(b)
           body == sanitizeBody(b)
           now == nowInstant(today)
           free == Ids \ usedIds
           id == IF body._id # 0 THEN body._id ELSE Least(free)
           doc == newDocument(body, id, user, now)
           saved == /\ details = {}
                    /\ documentErrors(candidate(body, now)) = {}
                    /\ id \notin StoredIds
       IN
       /\ details # {} \/ body._id # 0 \/ free # {}
       /\ request' = [NoRequest EXCEPT !.op = "create", !.user = user,
                                       !.body = b]
       /\ response' =
            IF details # {} THEN validationError(details)
            ELSE IF ~saved THEN serverError("Failed to create transaction")
            ELSE success(201, "Transaction created successfully", <<doc>>)
       /\ transactions' = IF saved THEN transactions \cup {doc}
                          ELSE transactions
       /\ usedIds' = IF details = {} THEN usedIds \cup {id} ELSE usedIds
       /\ created' = IF saved
                     THEN [created EXCEPT ![id] =
                             [by |-> user, body |-> b, untouched |-> TRUE]]
                     ELSE created
  /\ requests' = requests + 1
  /\ UNCHANGED deleted

\* ----------------------------------------------------------- DELETE /:id

DeleteTransaction(ids) ==
  /\ Idle
  /\ \E user \in Users, id \in ids :
       LET found == findOne(id, user) IN
       /\ request' = [NoRequest EXCEPT !.op = "delete", !.user = user,
                                       !.id = id]
       /\ response' =
            IF idValidation(id) # {} THEN validationError(idValidation(id))
            ELSE IF found = {} THEN notFound
            ELSE success(200, "Transaction deleted successfully",
                         <<CHOOSE d \in found : TRUE>>)
       /\ transactions' = transactions \ found
       /\ created' = IF found = {} THEN created
                     ELSE [created EXCEPT ![id] = NotCreated]
       /\ deleted' = IF found = {} THEN deleted ELSE deleted \cup {id}
  /\ requests' = requests + 1
  /\ UNCHANGED usedIds

\* ------------------------------------------------------------- PUT /:id

UpdateTransaction(ids, bodies) ==
  /\ Idle
  /\ \E user \in Users, id \in ids, b \in bodies :
       LET details == idValidation(id) \cup updateValidation(b)
           body == sanitizeBody(b)
           \* cast and update validators run before the query is sent
           rejected == \/ updateErrors(body, castBody(body)) # {}
                       \/ Present(body.amount) /\ body.inc # 0
           found == IF details = {} /\ ~rejected THEN findOne(id, user)
                    ELSE {}
           updated == {applyUpdate(d, body) : d \in found}
       IN
       /\ request' = [NoRequest EXCEPT !.op = "update", !.user = user,
                                       !.id = id, !.body = b]
       /\ response' =
            IF details # {} THEN validationError(details)
            ELSE IF rejected THEN serverError("Failed to update transaction")
            ELSE IF found = {} THEN notFound
            ELSE success(200, "Transaction updated successfully",
                         <<CHOOSE d \in updated : TRUE>>)
       /\ transactions' = (transactions \ found) \cup updated
       /\ created' = IF found = {} THEN created
                     ELSE [created EXCEPT ![id].untouched = FALSE]
  /\ requests' = requests + 1
  /\ UNCHANGED <<usedIds, deleted>>

\* the response is sent; the server waits for the next request
Responded ==
  /\ request.op # "none"
  /\ request' = NoRequest
  /\ response' = NoResponse
  /\ UNCHANGED <<transactions, usedIds, created, deleted, requests>>


\* ------------------------------------------------------------ POST /bulk

\* the k-th least of a set of ids
RECURSIVE NthLeast(_, _)
NthLeast(S, k) == IF k = 1 THEN Least(S) ELSE NthLeast(S \ {Least(S)}, k - 1)

\* how many of the first i items bring no _id
Unnamed(items, i) == Cardinality({j \in 1..i : items[j]._id = 0})

\* the _id of every document of an insertMany: the one of the item, or a new
\* ObjectId
bulkIds(items, free) ==
  [i \in 1..Len(items) |->
     IF items[i]._id # 0 THEN items[i]._id
     ELSE NthLeast(free, Unnamed(items, i))]

\* an ordered insert: the documents go in one by one, up to the first whose
\* _id is taken; n is how many went in
RECURSIVE insertOrdered(_, _, _)
insertOrdered(store, docs, i) ==
  IF i > Len(docs) THEN [store |-> store, n |-> Len(docs)]
  ELSE IF docs[i]._id \in {d._id : d \in store}
       THEN [store |-> store, n |-> i - 1]
       ELSE insertOrdered(store \cup {docs[i]}, docs, i + 1)

BulkCreateTransactions(arrays) ==
  /\ Idle
  /\ \E user \in Users, bs \in arrays :
       LET details == bulkValidation(bs)
           now == nowInstant(today)
           named == {bs[i]._id : i \in 1..Len(bs)} \ {0}
           free == Ids \ (usedIds \cup named)
           ids == bulkIds(bs, free)
           docs == [i \in 1..Len(bs) |-> newDocument(bs[i], ids[i], user, now)]
           \* insertMany validates every document before it inserts any
           valid == \A i \in 1..Len(bs) :
                      documentErrors(candidate(bs[i], now)) = {}
           inserted == IF details = {} /\ valid
                       THEN insertOrdered(transactions, docs, 1)
                       ELSE [store |-> transactions, n |-> 0]
           done == details = {} /\ valid /\ inserted.n = Len(bs)
       IN
       /\ details # {} \/ Unnamed(bs, Len(bs)) <= Cardinality(free)
       /\ request' = [NoRequest EXCEPT !.op = "bulk", !.user = user,
                                       !.items = bs]
       /\ response' =
            IF details # {} THEN validationError(details)
            ELSE IF ~done THEN serverError("Failed to create transactions")
            ELSE success(201, "transactions created successfully", docs)
       /\ transactions' = inserted.store
       /\ usedIds' = IF details = {}
                     THEN usedIds \cup {ids[i] : i \in 1..Len(bs)}
                     ELSE usedIds
       /\ created' =
            [id \in Ids |->
               IF \E i \in 1..inserted.n : ids[i] = id
               THEN [by |-> user,
                     body |-> bs[CHOOSE i \in 1..inserted.n : ids[i] = id],
                     untouched |-> TRUE]
               ELSE created[id]]
  /\ requests' = requests + 1
  /\ UNCHANGED deleted

\* =========================================================================
\* Analytics: GET /api/analytics/summary, /categories and /trends
\* =========================================================================

\* ------------------------------------------------------------- instants

\* The server's clock runs on UTC. An instant is a count of hours since
\* 1970-01-01T00:00Z; a stored date is the text of toISOString().

\* days from 1970-01-01 to the day d of the month m (1..12) of the year y
daysFromCivil(y, m, d) ==
  LET yy == IF m <= 2 THEN y - 1 ELSE y
      era == yy \div 400
      yoe == yy - era * 400
      mp == (m + 9) % 12
      doy == (153 * mp + 2) \div 5 + d - 1
      doe == yoe * 365 + yoe \div 4 - yoe \div 100 + doy
  IN era * 146097 + doe - 719468

\* new Date(year, monthIndex, day).getTime(): monthIndex counts from 0, and a
\* month or a day out of range carries over
dateOf(year, monthIndex, day) ==
  LET y == year + monthIndex \div 12
      m == (monthIndex % 12) + 1
  IN (daysFromCivil(y, m, 1) + day - 1) * 24

getFullYear(iso) == DigitsVal(SubSeq(iso, 1, 4))
\* getMonth(): 0 for January
getMonth(iso) == DigitsVal(SubSeq(iso, 6, 7)) - 1
getDate(iso) == DigitsVal(SubSeq(iso, 9, 10))
getHours(iso) == DigitsVal(SubSeq(iso, 12, 13))

\* Date.prototype.getTime of a stored date
getTime(iso) ==
  dateOf(getFullYear(iso), getMonth(iso), getDate(iso)) + getHours(iso)

\* $dayOfYear and $dayOfWeek (0 for Sunday) of a stored date
dayOfYear(iso) ==
  (dateOf(getFullYear(iso), getMonth(iso), getDate(iso))
     - dateOf(getFullYear(iso), 0, 1)) \div 24 + 1
dayOfWeek(iso) ==
  (dateOf(getFullYear(iso), getMonth(iso), getDate(iso)) \div 24 + 4) % 7

\* $week: weeks begin on Sunday, week 1 begins with the first Sunday of the
\* year, the days before it are week 0
weekOf(iso) == (dayOfYear(iso) + 6 - dayOfWeek(iso)) \div 7

\* ------------------------------------------------------------ the query

\* query(name).optional().isIn(values)
isInMessage(value, values, message) ==
  IF Present(value) /\ toString(value) \notin values THEN {message} ELSE {}

\* query("startDate") and query("endDate"): optional().isISO8601()
rangeValidation(q) ==
  (IF Present(q.startDate) /\ ~isISO8601(toString(q.startDate))
   THEN {"Start date must be valid ISO date"} ELSE {})
    \cup (IF Present(q.endDate) /\ ~isISO8601(toString(q.endDate))
          THEN {"End date must be valid ISO date"} ELSE {})

summaryValidation(q) ==
  isInMessage(q.period, {"week", "month", "year", "all"},
              "Period must be week, month, year, or all")
    \cup rangeValidation(q)

categoriesValidation(q) ==
  isInMessage(q.period, {"week", "month", "year", "all"},
              "Period must be week, month, year, or all")
    \cup isInMessage(q.type, {"income", "expense", "both"},
                     "Type must be income, expense, or both")
    \cup rangeValidation(q)

trendsValidation(q) ==
  isInMessage(q.period, {"week", "month", "year"},
              "Period must be week, month, or year")
    \cup isInMessage(q.groupBy, {"day", "week", "month"},
                     "GroupBy must be day, week, or month")
    \cup rangeValidation(q)

\* const { name = fallback } = req.query
orDefault(value, fallback) == IF value.k = "undef" THEN fallback ELSE value.s

\* ------------------------------------------------------ the date filter

\* { date: { $gte, $lte } }: a bound that is absent does not restrict
NoBound == [has |-> FALSE, t |-> 0]
Bound(t) == [has |-> TRUE, t |-> t]
NoFilter == [gte |-> NoBound, lte |-> NoBound]

\* the branch for explicit dates, the same in the three handlers
explicitFilter(q) ==
  [gte |-> Bound(getTime(newDate(q.startDate.s))),
   lte |-> Bound(getTime(newDate(q.endDate.s)))]

\* dateFilter of GET /summary; now is the text of new Date()
summaryDateFilter(q, now) ==
  LET period == orDefault(q.period, "month") IN
  IF Truthy(q.startDate) /\ Truthy(q.endDate) THEN explicitFilter(q)
  ELSE CASE period = "week" ->
              [NoFilter EXCEPT !.gte = Bound(getTime(now) - 7 * 24)]
         [] period = "month" ->
              [NoFilter EXCEPT
                 !.gte = Bound(dateOf(getFullYear(now), getMonth(now), 1))]
         [] period = "year" ->
              [NoFilter EXCEPT !.gte = Bound(dateOf(getFullYear(now), 0, 1))]
         [] OTHER -> NoFilter

\* dateFilter of GET /categories
categoriesDateFilter(q, now) ==
  LET period == orDefault(q.period, "month") IN
  IF Truthy(q.startDate) /\ Truthy(q.endDate) THEN explicitFilter(q)
  ELSE CASE period = "week" ->
              [NoFilter EXCEPT !.gte = Bound(getTime(now) - 7 * 24)]
         [] period = "month" ->
              [NoFilter EXCEPT
                 !.gte = Bound(dateOf(getFullYear(now), getMonth(now), 1))]
         [] period = "year" ->
              [NoFilter EXCEPT !.gte = Bound(dateOf(getFullYear(now), 0, 1))]
         [] OTHER -> NoFilter

\* dateFilter of GET /trends: setMonth and setFullYear keep the day of the
\* month and the time of day
trendsDateFilter(q, now) ==
  LET period == orDefault(q.period, "year") IN
  IF Truthy(q.startDate) /\ Truthy(q.endDate) THEN explicitFilter(q)
  ELSE CASE period = "week" ->
              [NoFilter EXCEPT !.gte = Bound(getTime(now) - 7 * 24)]
         [] period = "month" ->
              [NoFilter EXCEPT
                 !.gte = Bound(dateOf(getFullYear(now), getMonth(now) - 1,
                                      getDate(now)) + getHours(now))]
         [] OTHER ->
              [NoFilter EXCEPT
                 !.gte = Bound(dateOf(getFullYear(now) - 1, getMonth(now),
                                      getDate(now)) + getHours(now))]

\* previousPeriodFilter of GET /summary
previousPeriodFilter(q, now) ==
  IF orDefault(q.period, "month") = "month"
  THEN [gte |-> Bound(dateOf(getFullYear(now), getMonth(now) - 1, 1)),
        lte |-> Bound(dateOf(getFullYear(now), getMonth(now), 0))]
  ELSE NoFilter

\* a $match on the dates alone
matchAnyOwner(userId, filter) ==
  {d \in transactions :
     /\ filter.gte.has => getTime(d.date) >= filter.gte.t
     /\ filter.lte.has => getTime(d.date) <= filter.lte.t}

\* $match: { userId, ...dateFilter }
matchFilter(userId, filter) ==
  {d \in transactions :
     /\ d.userId = userId
     /\ filter.gte.has => getTime(d.date) >= filter.gte.t
     /\ filter.lte.has => getTime(d.date) <= filter.lte.t}

\* $sum: "$amount" over a group
RECURSIVE sumAmount(_)
sumAmount(docs) ==
  IF docs = {} THEN 0
  ELSE LET d == CHOOSE x \in docs : TRUE IN d.amount + sumAmount(docs \ {d})

ofType(docs, type) == {d \in docs : d.type = type}

\* ------------------------------------------------------- GET /summary

\* ((num / den) * 100).toFixed(1), den >= 0: a division by zero gives NaN or
\* an infinity, and toFixed gives its name
toFixed1(num, den) ==
  LET a == IF num < 0 THEN 0 - num ELSE num
      tenths == (2000 * a + den) \div (2 * den)
  IN IF den = 0
     THEN (IF num = 0 THEN "NaN"
           ELSE IF num < 0 THEN "-Infinity" ELSE "Infinity")
     ELSE (IF num < 0 THEN "-" ELSE "") \o NatStr(tenths \div 10) \o "."
            \o NatStr(tenths % 10)

\* the change without the test of previous
changeUnguarded(total, previous) == JStr(toFixed1(total - previous, previous))

\* previous > 0 ? (((total - previous) / previous) * 100).toFixed(1) : null
change(total, previous) ==
  IF previous > 0 THEN JStr(toFixed1(total - previous, previous)) ELSE JNull

\* the body of the answer of GET /summary, the averages left out
summaryResult(userId, q, now) ==
  LET filter == summaryDateFilter(q, now)
      matched == matchFilter(userId, filter)
      previous == matchFilter(userId, previousPeriodFilter(q, now))
      totalIncome == sumAmount(ofType(matched, "income"))
      totalExpenses == sumAmount(ofType(matched, "expense"))
  IN [totalIncome |-> totalIncome,
      totalExpenses |-> totalExpenses,
      netIncome |-> totalIncome - totalExpenses,
      incomeCount |-> Cardinality(ofType(matched, "income")),
      expenseCount |-> Cardinality(ofType(matched, "expense")),
      period |-> orDefault(q.period, "month"),
      dateRange |-> filter,
      incomeChange |-> change(totalIncome,
                              sumAmount(ofType(previous, "income"))),
      expenseChange |-> change(totalExpenses,
                               sumAmount(ofType(previous, "expense")))]

\* ---------------------------------------------------- GET /categories

\* $group: { _id: "$category", total: { $sum: "$amount" } }
categoryGroups(docs) ==
  {[_id |-> c, total |-> sumAmount({d \in docs : d.category = c})] :
     c \in {d.category : d \in docs}}

\* $sort: { total: -1 }: every order of the groups with the totals descending
sortedByTotal(groups) ==
  {s \in [1..Cardinality(groups) -> groups] :
     /\ \A i, j \in DOMAIN s : i # j => s[i] # s[j]
     /\ \A i, j \in DOMAIN s : i < j => s[i].total >= s[j].total}

\* the documents of the window whatever their type
categoriesOfAnyType(userId, q, now) ==
  matchFilter(userId, categoriesDateFilter(q, now))

\* the documents GET /categories groups
categoriesMatched(userId, q, now) ==
  LET type == orDefault(q.type, "expense")
      matched == matchFilter(userId, categoriesDateFilter(q, now))
  IN IF type # "both" THEN ofType(matched, type) ELSE matched

\* -------------------------------------------------------- GET /trends

\* String(n).padStart(2, "0")
padStart2(n) == IF n < 10 THEN "0" \o NatStr(n) ELSE NatStr(n)

\* dateKey of a document under groupBy
dateKey(iso, groupBy) ==
  CASE groupBy = "day" ->
         NatStr(getFullYear(iso)) \o "-" \o padStart2(getMonth(iso) + 1)
           \o "-" \o padStart2(getDate(iso))
    [] groupBy = "week" ->
         NatStr(getFullYear(iso)) \o "-W" \o padStart2(weekOf(iso))
    [] OTHER ->
         NatStr(getFullYear(iso)) \o "-" \o padStart2(getMonth(iso) + 1)

\* the order of the characters of a key
KeyChars == "-0123456789W"

\* a.localeCompare(b) < 0 on keys
RECURSIVE keyBefore(_, _)
keyBefore(a, b) ==
  IF b = "" THEN FALSE
  ELSE IF a = "" THEN TRUE
  ELSE IF Head(a) = Head(b) THEN keyBefore(Tail(a), Tail(b))
  ELSE IndexIn(KeyChars, Head(a)) < IndexIn(KeyChars, Head(b))

\* an entry of a $group that leaves the type out of its _id
bucketUntyped(key, docs) ==
  [date |-> key,
   income |-> sumAmount(docs),
   expenses |-> sumAmount(docs),
   net |-> 0,
   incomeCount |-> Cardinality(docs),
   expenseCount |-> Cardinality(docs)]

\* one entry of processedData
bucket(key, docs) ==
  LET income == ofType(docs, "income")
      expenses == docs \ income
  IN [date |-> key,
      income |-> sumAmount(income),
      expenses |-> sumAmount(expenses),
      net |-> sumAmount(income) - sumAmount(expenses),
      incomeCount |-> Cardinality(income),
      expenseCount |-> Cardinality(expenses)]

\* Object.values(processedData).sort(by date)
RECURSIVE sortedBuckets(_, _, _)
sortedBuckets(keys, docs, groupBy) ==
  IF keys = {} THEN <<>>
  ELSE LET first == CHOOSE k \in keys :
                      \A other \in keys \ {k} : keyBefore(k, other)
       IN <<bucket(first, {d \in docs : dateKey(d.date, groupBy) = first})>>
            \o sortedBuckets(keys \ {first}, docs, groupBy)

trendsResult(userId, q, now) ==
  LET groupBy == orDefault(q.groupBy, "month")
      matched == matchFilter(userId, trendsDateFilter(q, now))
  IN sortedBuckets({dateKey(d.date, groupBy) : d \in matched}, matched,
                   groupBy)

\* ------------------------------------------------------- the requests

AnalyticsIdle == analytics.op = "none"

GetSummary(queries) ==
  /\ AnalyticsIdle
  /\ \E user \in Users, q \in queries :
       LET details == summaryValidation(q) IN
       analytics' =
         IF details # {}
         THEN [NoAnalytics EXCEPT !.op = "summary", !.user = user,
                                  !.query = q, !.status = 400,
                                  !.details = details]
         ELSE [op |-> "summary", user |-> user, query |-> q, status |-> 200,
               details |-> {},
               result |-> summaryResult(user, q, nowInstant(today))]

GetCategories(queries) ==
  /\ AnalyticsIdle
  /\ \E user \in Users, q \in queries :
       LET details == categoriesValidation(q)
           now == nowInstant(today)
           groups == categoryGroups(categoriesMatched(user, q, now))
       IN
       \E categories \in (IF details # {} THEN {<<>>}
                          ELSE sortedByTotal(groups)) :
         analytics' =
           IF details # {}
           THEN [NoAnalytics EXCEPT !.op = "categories", !.user = user,
                                    !.query = q, !.status = 400,
                                    !.details = details]
           ELSE [op |-> "categories", user |-> user, query |-> q,
                 status |-> 200, details |-> {},
                 categories |-> categories,
                 period |-> orDefault(q.period, "month"),
                 type |-> orDefault(q.type, "expense"),
                 dateRange |-> categoriesDateFilter(q, now)]

GetTrends(queries) ==
  /\ AnalyticsIdle
  /\ \E user \in Users, q \in queries :
       LET details == trendsValidation(q)
           now == nowInstant(today)
       IN
       analytics' =
         IF details # {}
         THEN [NoAnalytics EXCEPT !.op = "trends", !.user = user,
                                  !.query = q, !.status = 400,
                                  !.details = details]
         ELSE [op |-> "trends", user |-> user, query |-> q, status |-> 200,
               details |-> {},
               trends |-> trendsResult(user, q, now),
               period |-> orDefault(q.period, "year"),
               groupBy |-> orDefault(q.groupBy, "month"),
               dateRange |-> trendsDateFilter(q, now)]

\* the response is sent; the server waits for the next request
AnalyticsResponded ==
  /\ analytics.op # "none"
  /\ analytics' = NoAnalytics

\* the parser at rest
ParserIdle ==
  /\ GEMINI_API_KEY = ""
  /\ genAI = FALSE
  /\ today \in Todays
  /\ parse = NoParse

\* The collection when the server starts: empty, or holding a transaction
\* that u1 created in an earlier run.
SeedDocument == newDocument(BaseBody, 1, "u1", nowInstant("2024-06-01"))

InitSeeded ==
  /\ transactions = {SeedDocument}
  /\ usedIds = {1}
  /\ created = [i \in Ids |->
                  IF i = 1
                  THEN [by |-> "u1", body |-> BaseBody, untouched |-> TRUE]
                  ELSE NotCreated]
  /\ deleted = {}
  /\ request = NoRequest
  /\ response = NoResponse
  /\ requests = 0
  /\ analytics = NoAnalytics
  /\ RestIdle

Init == ParserIdle /\ (InitStore \/ InitSeeded)

Next ==
  \/ GetTransaction(Ids) /\ UNCHANGED <<parseVars, analytics, restVars>>
  \/ CreateTransaction(CreateBodies) /\ UNCHANGED <<parseVars, analytics, restVars>>
  \/ BulkCreateTransactions(Arrays(BulkItems)) /\ UNCHANGED <<parseVars, analytics, restVars>>
  \/ UpdateTransaction(Ids, UpdateBodies) /\ UNCHANGED <<parseVars, analytics, restVars>>
  \/ DeleteTransaction(Ids) /\ UNCHANGED <<parseVars, analytics, restVars>>
  \/ Responded /\ UNCHANGED <<parseVars, analytics, restVars>>

\* sequences of requests on the store
Spec == Init /\ [][Next]_vars

\* One request, with a body of any shape, on a collection that holds a
\* transaction of u1.
ValidationInit ==
  /\ ParserIdle
  /\ InitSeeded

\* the first request after the start
First == requests = 0 /\ UNCHANGED <<parseVars, analytics, restVars>>

ValidationNext ==
  \/ GetTransaction(Ids \cup {0}) /\ First
  \/ CreateTransaction(AllCreateBodies) /\ First
  \/ BulkCreateTransactions(Arrays(AllBulkItems)) /\ First
  \/ UpdateTransaction(Ids \cup {0}, AllUpdateBodies) /\ First
  \/ DeleteTransaction(Ids \cup {0}) /\ First

ValidationSpec == ValidationInit /\ [][ValidationNext]_vars

\* the parser, with the store at rest
ParseInit == InitParse /\ InitStore

ParseNext ==
  \/ ParseRequest /\ UNCHANGED <<storeVars, analytics, restVars>>
  \/ ParseResponded /\ UNCHANGED <<storeVars, analytics, restVars>>

ParseSpec == ParseInit /\ [][ParseNext]_vars

\* --------------------------------------------------------- the inputs

\* a query with a period and a range of dates
Query(period, startDate, endDate) ==
  [NoQuery EXCEPT !.period = period, !.startDate = startDate,
                  !.endDate = endDate]

\* every period without dates and with the dates of May 2024; one date only;
\* a date and a period that are not valid
PeriodQueries ==
  {Query(p, r[1], r[2]) :
     p \in {JUndef, JStr("week"), JStr("month"), JStr("year"), JStr("all")},
     r \in {<<JUndef, JUndef>>, <<JStr("2024-05-01"), JStr("2024-05-31")>>}}
    \cup {Query(JUndef, JStr("2024-06-01"), JUndef),
          Query(JUndef, JStr("2024-05-01"), JStr("yesterday")),
          Query(JStr("decade"), JUndef, JUndef)}

CategoriesQueries ==
  PeriodQueries
    \cup {[q EXCEPT !.type = JStr(t)] :
            q \in {Query(JUndef, JUndef, JUndef),
                   Query(JStr("all"), JUndef, JUndef)},
            t \in {"income", "both"}}
    \cup {[NoQuery EXCEPT !.type = JStr("all")]}

TrendsQueries ==
  PeriodQueries
    \cup {[q EXCEPT !.groupBy = JStr(g)] :
            q \in {Query(JUndef, JUndef, JUndef),
                   Query(JUndef, JStr("2024-05-01"), JStr("2024-05-31"))},
            g \in {"day", "week"}}
    \cup {[NoQuery EXCEPT !.groupBy = JStr("year")]}

\* a body of POST / for the stored transactions
Body(type, category, amount, date) ==
  [BaseBody EXCEPT !.type = JStr(type), !.category = JStr(category),
                   !.amount = JNum(amount), !.date = date]

\* The transactions a collection is filled from: the body and the user of the
\* POST / that created each, and the day it was sent on.
Pool ==
  << [user |-> "u1", on |-> "2024-06-15",
      body |-> Body("expense", "Food", 1250, JStr("2024-06-15"))],
     [user |-> "u1", on |-> "2024-06-15",
      body |-> Body("expense", "Pets", 500, JStr("2024-06-10"))],
     [user |-> "u1", on |-> "2024-06-15",
      body |-> Body("income", "Salary", 5000, JStr("2024-06-01"))],
     [user |-> "u1", on |-> "2024-05-31",
      body |-> Body("expense", "Food", 1250, JUndef)],
     [user |-> "u1", on |-> "2024-06-15",
      body |-> Body("income", "Salary", 4000, JStr("2024-05-20"))],
     [user |-> "u1", on |-> "2024-06-15",
      body |-> Body("expense", "food", 700, JStr("2024-01-01"))],
     [user |-> "u1", on |-> "2024-06-15",
      body |-> Body("income", "Gift", 4000, JStr("2023-12-31"))],
     [user |-> "u1", on |-> "2024-06-15",
      body |-> Body("expense", "Pets", 1250, JStr("2023-08-01"))],
     [user |-> "u2", on |-> "2024-06-15",
      body |-> Body("expense", "Food", 1250, JStr("2024-06-15"))],
     [user |-> "u2", on |-> "2024-06-15",
      body |-> Body("income", "Salary", 6000, JStr("2024-05-20"))] >>

\* the days the analytics are asked on; the server's clock reads noon
AnalyticsTodays == {"2024-06-15", "2024-01-10"}

\* the collection holds up to MaxIds transactions of Pool, created by POST /
AnalyticsInit ==
  /\ GEMINI_API_KEY = ""
  /\ genAI = FALSE
  /\ parse = NoParse
  /\ today \in AnalyticsTodays
  /\ \E n \in 0..MaxIds :
     \E picks \in [1..n -> 1..Len(Pool)] :
       /\ \A i, j \in 1..n : i < j => picks[i] <= picks[j]
       /\ transactions =
            {newDocument(Pool[picks[i]].body, i, Pool[picks[i]].user,
                         nowInstant(Pool[picks[i]].on)) : i \in 1..n}
       /\ usedIds = 1..n
       /\ created = [i \in Ids |->
                       IF i <= n
                       THEN [by |-> Pool[picks[i]].user,
                             body |-> Pool[picks[i]].body,
                             untouched |-> TRUE]
                       ELSE NotCreated]
  /\ deleted = {}
  /\ request = NoRequest
  /\ response = NoResponse
  /\ requests = 0
  /\ analytics = NoAnalytics
  /\ RestIdle

AnalyticsNext ==
  \/ GetSummary(PeriodQueries) /\ UNCHANGED <<parseVars, storeVars, restVars>>
  \/ GetCategories(CategoriesQueries) /\ UNCHANGED <<parseVars, storeVars, restVars>>
  \/ GetTrends(TrendsQueries) /\ UNCHANGED <<parseVars, storeVars, restVars>>
  \/ AnalyticsResponded /\ UNCHANGED <<parseVars, storeVars, restVars>>

\* the analytics over a collection that does not change
AnalyticsSpec == AnalyticsInit /\ [][AnalyticsNext]_vars

\* ------------------------------------------------------ authentication

\* jwt.sign(jwtPayload, JWT_SECRET, { expiresIn }) of the callback, as it
\* reaches the server later: within its life or past it; a text signed with
\* another secret; a text that is no token
Token(form, secret, expired, userId) ==
  [form |-> form, secret |-> secret, expired |-> expired, userId |-> userId]

Tokens ==
  {Token("malformed", FALSE, FALSE, "")}
    \cup {Token("signed", s, e, u) : s \in BOOLEAN, e \in BOOLEAN, u \in Users}

\* req.headers["authorization"]: absent, one word, or a scheme word and a
\* token
Headers ==
  {NoHeader, [words |-> 1, scheme |-> "Bearer", token |-> NoToken]}
    \cup {[words |-> 2, scheme |-> "Bearer", token |-> t] : t \in Tokens}
    \cup {[words |-> 2, scheme |-> "Token", token |-> t] :
            t \in {Token("signed", TRUE, FALSE, u) : u \in Users}}

\* authHeader && authHeader.split(" ")[1]
tokenOf(header) == IF header.words >= 2 THEN header.token ELSE NoToken

\* jwt.verify(token, JWT_SECRET): the name of the error it throws, or "" when
\* it returns the payload; the signature is checked before the expiry
verifyError(token) ==
  IF token.form = "malformed" \/ ~token.secret THEN "JsonWebTokenError"
  ELSE IF token.expired THEN "TokenExpiredError"
  ELSE ""

\* User.findById(id)
findById(collection, id) == {u \in collection : u._id = id}

denied(status, error, message) ==
  [next |-> FALSE, status |-> status, error |-> error, message |-> message,
   user |-> ""]

\* the middleware without the lookup of the user
authenticateAnyUser(header, collection, findFails) ==
  LET token == tokenOf(header) IN
  IF token.form = "none"
  THEN denied(401, "Access denied", "No token provided")
  ELSE IF verifyError(token) = "JsonWebTokenError"
  THEN denied(403, "Access denied", "Invalid token")
  ELSE IF verifyError(token) = "TokenExpiredError"
  THEN denied(403, "Access denied", "Token expired")
  ELSE [next |-> TRUE, status |-> 0, error |-> "", message |-> "",
        user |-> token.userId]

\* authenticateToken: what it answers, or that it calls next() with req.user
authenticateToken(header, collection, findFails) ==
  LET token == tokenOf(header) IN
  IF token.form = "none"
  THEN denied(401, "Access denied", "No token provided")
  ELSE IF verifyError(token) = "JsonWebTokenError"
  THEN denied(403, "Access denied", "Invalid token")
  ELSE IF verifyError(token) = "TokenExpiredError"
  THEN denied(403, "Access denied", "Token expired")
  ELSE IF findFails
  THEN denied(500, "Server error", "Token verification failed")
  ELSE IF findById(collection, token.userId) = {}
  THEN denied(401, "Access denied", "User not found")
  ELSE [next |-> TRUE, status |-> 0, error |-> "", message |-> "",
        user |-> token.userId]

\* app.use(path, authenticateToken, routes): the middleware calls next() and
\* the handler runs for req.user
Admitted(owner) ==
  /\ auth.op = "none"
  /\ \E header \in Headers :
       LET r == authenticateToken(header, users, FALSE) IN
       /\ r.next
       /\ r.user = owner
       /\ auth' = [NoAuth EXCEPT !.op = "protected", !.header = header,
                                 !.next = TRUE, !.user = r.user]
  /\ UNCHANGED users

\* app.use(path, authenticateToken, routes): the middleware answers and the
\* handler does not run
Denied ==
  /\ Idle
  /\ AnalyticsIdle
  /\ auth.op = "none"
  /\ \E header \in Headers, findFails \in BOOLEAN :
       LET r == authenticateToken(header, users, findFails) IN
       /\ ~r.next
       /\ auth' = [NoAuth EXCEPT !.op = "protected", !.header = header,
                                 !.findFails = findFails,
                                 !.status = r.status, !.error = r.error,
                                 !.message = r.message]
  /\ requests' = requests + 1
  /\ UNCHANGED <<transactions, usedIds, created, deleted, request, response>>
  /\ UNCHANGED <<analytics, users>>

\* the answer of the middleware or of the callback was sent
AuthResponded ==
  /\ auth.op # "none"
  /\ request.op = "none"
  /\ analytics.op = "none"
  /\ auth' = NoAuth
  /\ UNCHANGED <<storeVars, analytics, users>>

\* -------------------------------------------------- GET /google/callback

\* req.query.code and what Google answers for it: the exchange fails, or the
\* ticket holds sub, email, name, picture and email_verified
Payload(googleId, email, name, picture, email_verified) ==
  [code |-> TRUE, googleId |-> googleId, email |-> email, name |-> name,
   picture |-> picture, email_verified |-> email_verified]

Payloads ==
  {NoPayload, [NoPayload EXCEPT !.code = TRUE],
   Payload("g1", "ann@x.io", JStr("Ann B"), JStr("new.png"), FALSE)}
    \cup {Payload(g, e, np[1], np[2], TRUE) :
            g \in {"g1", "g3"}, e \in {"ann@x.io", "cat@x.io"},
            np \in {<<JStr("Ann B"), JStr("new.png")>>, <<JUndef, JUndef>>}}

\* the ObjectIds of the User documents of this run
NewUserIds == {"u3", "u4"}

\* email.split("@")[0]
localPart(email) ==
  LET at == {i \in 1..Len(email) : CharAt(email, i) = "@"} IN
  IF at = {} THEN email
  ELSE SubSeq(email, 1, (CHOOSE i \in at : \A j \in at : i <= j) - 1)

\* the branch of the callback for a user that was found
updatedUser(user, p, now) ==
  [user EXCEPT
     !.googleId = p.googleId,
     !.name = IF Truthy(p.name) THEN p.name.s ELSE user.name,
     !.picture = IF Truthy(p.picture) THEN p.picture ELSE user.picture,
     !.lastLogin = now]

\* the branch of the callback for a user that was not found
createdUser(id, p, now) ==
  User(id, p.googleId, p.email,
       IF Truthy(p.name) THEN p.name.s ELSE localPart(p.email),
       IF Truthy(p.picture) THEN p.picture ELSE JNull, now)

\* the unique indexes of googleId and email
duplicateKey(collection, user) ==
  \E other \in collection :
    /\ other._id # user._id
    /\ other.googleId = user.googleId \/ other.email = user.email

redirected(p, token, message) ==
  [NoAuth EXCEPT !.op = "callback", !.payload = p, !.status = 302,
                 !.user = token, !.message = message]

Callback(payloads) ==
  /\ Idle
  /\ AnalyticsIdle
  /\ auth.op = "none"
  /\ \E p \in payloads :
       LET now == nowInstant(today)
           found == {u \in users : u.googleId = p.googleId \/ u.email = p.email}
           free == NewUserIds \ {u._id : u \in users}
       IN
       IF ~p.code
       THEN /\ auth' = [NoAuth EXCEPT !.op = "callback", !.payload = p,
                          !.status = 400, !.error = "Bad Request",
                          !.message = "Authorization code is required"]
            /\ UNCHANGED users
       ELSE IF p.googleId = ""
       THEN /\ auth' = redirected(p, "", "Failed to authenticate with Google")
            /\ UNCHANGED users
       ELSE IF ~p.email_verified
       THEN /\ auth' = [NoAuth EXCEPT !.op = "callback", !.payload = p,
                          !.status = 400, !.error = "Email Not Verified",
                          !.message =
                            "Please verify your email with Google first"]
            /\ UNCHANGED users
       ELSE IF found # {}
       THEN \E user \in found :
              LET saved == updatedUser(user, p, now) IN
              IF duplicateKey(users, saved)
              THEN /\ auth' = redirected(p, "",
                                         "Failed to authenticate with Google")
                   /\ UNCHANGED users
              ELSE /\ auth' = redirected(p, user._id, "")
                   /\ users' = (users \ {user}) \cup {saved}
       ELSE /\ free # {}
            /\ LET id == IF "u3" \in free THEN "u3" ELSE "u4"
               IN /\ auth' = redirected(p, id, "")
                  /\ users' = users \cup {createdUser(id, p, now)}
  /\ requests' = requests + 1
  /\ UNCHANGED <<transactions, usedIds, created, deleted, request, response>>
  /\ UNCHANGED analytics

\* the protected routes and the callback; the User collection of the start
\* holds the accounts of an earlier run, or lost some of them
AuthInit ==
  /\ ParserIdle
  /\ transactions = {SeedDocument}
  /\ usedIds = {1}
  /\ created = [i \in Ids |->
                  IF i = 1
                  THEN [by |-> "u1", body |-> BaseBody, untouched |-> TRUE]
                  ELSE NotCreated]
  /\ deleted = {}
  /\ request = NoRequest
  /\ response = NoResponse
  /\ requests = 0
  /\ analytics = NoAnalytics
  /\ users \in SUBSET SeedUsers
  /\ auth = NoAuth
  /\ db = NoDb
  /\ UiIdle

AuthNext ==
  \/ GetTransaction(Ids) /\ Admitted(request'.user) /\ UNCHANGED <<parseVars, analytics, db, uiVars>>
  \/ CreateTransaction({BaseBody}) /\ Admitted(request'.user) /\ UNCHANGED <<parseVars, analytics, db, uiVars>>
  \/ DeleteTransaction(Ids) /\ Admitted(request'.user) /\ UNCHANGED <<parseVars, analytics, db, uiVars>>
  \/ GetSummary({NoQuery}) /\ Admitted(analytics'.user) /\ UNCHANGED <<parseVars, storeVars, db, uiVars>>
  \/ Denied /\ UNCHANGED <<parseVars, db, uiVars>>
  \/ Callback(Payloads) /\ UNCHANGED <<parseVars, db, uiVars>>
  \/ Responded /\ auth' = NoAuth /\ UNCHANGED <<parseVars, analytics, users, db, uiVars>>
  \/ AnalyticsResponded /\ auth' = NoAuth /\ UNCHANGED <<parseVars, storeVars, users, db, uiVars>>
  \/ AuthResponded /\ UNCHANGED <<parseVars, db, uiVars>>

AuthSpec == AuthInit /\ [][AuthNext]_vars

\* ------------------------------------------------------------ the start

\* the attempts to connect that a run makes at most
MaxAttempts == 3

\* connectDB with the timer that never is set
connectOnce(d, connects) ==
  [attempts |-> d.attempts + 1,
   failures |-> d.failures + (IF connects THEN 0 ELSE 1),
   connected |-> connects,
   timer |-> FALSE]

\* connectDB: mongoose.connect resolves, or it rejects and the catch sets a
\* timer of five seconds that calls connectDB again
connectDB(d, connects) ==
  [attempts |-> d.attempts + 1,
   failures |-> d.failures + (IF connects THEN 0 ELSE 1),
   connected |-> connects,
   timer |-> ~connects]

\* connectDB() of the module, when the server starts
StartServer ==
  /\ db = NoDb
  /\ \E connects \in BOOLEAN : db' = connectDB(db, connects)
  /\ UNCHANGED <<users, auth>>

\* setTimeout(connectDB, 5000) fires
RetryConnect ==
  /\ db.timer
  /\ db.attempts < MaxAttempts
  /\ \E connects \in BOOLEAN :
       db' = connectDB([db EXCEPT !.timer = FALSE], connects)
  /\ UNCHANGED <<users, auth>>

\* the server from its start, with the parse requests it answers
StartupInit == InitParse /\ InitStore

StartupNext ==
  \/ StartServer /\ UNCHANGED <<parseVars, storeVars, analytics, uiVars>>
  \/ RetryConnect /\ UNCHANGED <<parseVars, storeVars, analytics, uiVars>>
  \/ ParseRequest /\ UNCHANGED <<storeVars, analytics, restVars>>
  \/ ParseResponded /\ UNCHANGED <<storeVars, analytics, restVars>>

StartupSpec == StartupInit /\ [][StartupNext]_vars

\* ------------------------------------------------- TransactionInput.tsx

\* the texts a run of ConfirmSpec parses and the creations it makes, at most
MaxParses == 1
MaxConfirms == 1

\* JSON.stringify(parsedTransaction): the keys that the answer of POST /parse
\* holds
confirmBody(pt) ==
  [EmptyBody EXCEPT !.amount = JNum(pt.amount),
                    !.description = pt.description,
                    !.category = JStr(pt.category),
                    !.type = JStr(pt.type),
                    !.date = JStr(pt.date)]

\* handleAISubmit: the text of the input, unless it is blank, is parsed; the
\* answer is kept, a failure is shown and changes nothing
HandleAISubmit ==
  /\ input.parses < MaxParses
  /\ ParseRequest
  /\ parse'.text.k = "str"
  /\ trim(parse'.text.s) # ""
  /\ input' = IF parse'.status = 200
              THEN [held |-> TRUE, parsed |-> parse'.result,
                    text |-> parse'.text, sent |-> FALSE,
                    parses |-> input.parses + 1]
              ELSE [input EXCEPT !.parses = input.parses + 1]

\* handleConfirmTransaction: the parsed transaction is sent to POST / as it
\* is; it is dropped when the transaction was created
HandleConfirmTransaction ==
  /\ input.held
  /\ ~input.sent
  /\ requests < MaxConfirms
  /\ CreateTransaction({confirmBody(input.parsed)})
  /\ input' = [input EXCEPT !.sent = TRUE, !.held = (response'.status # 201)]

\* a transaction entered by hand
ManualCreate ==
  /\ ~input.sent
  /\ requests < MaxConfirms
  /\ CreateTransaction({BaseBody})
  /\ UNCHANGED input

ConfirmResponded ==
  /\ Responded
  /\ input' = [input EXCEPT !.sent = FALSE]

\* the smart input: parse, then confirm
ConfirmInit == InitParse /\ InitStore

ConfirmNext ==
  \/ HandleAISubmit /\ UNCHANGED <<storeVars, analytics, users, auth, db, scanner, editor, listing>>
  \/ ParseResponded /\ UNCHANGED <<storeVars, analytics, restVars>>
  \/ HandleConfirmTransaction /\ UNCHANGED <<parseVars, analytics, users, auth, db, scanner, editor, listing>>
  \/ ManualCreate /\ UNCHANGED <<parseVars, analytics, users, auth, db, scanner, editor, listing>>
  \/ ConfirmResponded /\ UNCHANGED <<parseVars, analytics, users, auth, db, scanner, editor, listing>>

ConfirmSpec == ConfirmInit /\ [][ConfirmNext]_vars

\* --------------------------------- TransactionsPage, EditTransactionModal

\* the saves a run of EditSpec makes at most
MaxSaves == 1

MonthNames ==
  <<"Jan", "Feb", "Mar", "Apr", "May", "Jun", "Jul", "Aug", "Sep", "Oct",
    "Nov", "Dec">>

\* new Date(t.date).toLocaleDateString("en-US", { month: "short",
\* day: "numeric", year: "numeric" })
toLocaleDateString(date) ==
  MonthNames[getMonth(date) + 1] \o " " \o NatStr(getDate(date)) \o ", "
    \o NatStr(getFullYear(date))

\* the row TransactionList shows for a transaction of the answer of GET /
transformed(t) ==
  [id |-> t._id,
   description |-> t.description,
   category |-> t.category,
   amount |-> IF t.type = "expense" THEN 0 - t.amount ELSE t.amount,
   date |-> toLocaleDateString(t.date),
   type |-> t.type]

\* fetchTransactions: page 1 of the transactions of the user
fetchTransactions(user) ==
  {transformed(t) : t \in {d \in transactions : d.userId = user}}

\* useState of formData for the transaction that is edited
formOf(row) ==
  [description |-> row.description,
   category |-> row.category,
   amount |-> NumStr(IF row.amount < 0 THEN 0 - row.amount ELSE row.amount),
   type |-> row.type,
   date |-> row.date]

\* the page is opened by a user: the list fetches its rows
MountPage ==
  /\ editor.user = ""
  /\ \E user \in Users :
       editor' = [NoEdit EXCEPT !.user = user,
                                !.rows = fetchTransactions(user)]

\* onEdit(transaction): the modal opens on a row of the list
OpenEdit ==
  /\ editor.user # ""
  /\ editor.editing = 0
  /\ editor.refreshTrigger < MaxSaves
  /\ \E row \in editor.rows :
       editor' = [editor EXCEPT !.editing = row.id, !.formData = formOf(row)]

\* what the fields of the form are set to
FormValues ==
  [description |-> {"Taxi"}, category |-> {"Other"}, amount |-> {"5"},
   type |-> {"income"}, date |-> {"2024-06-02"}]

\* handleChange(field, value)
HandleChange ==
  /\ editor.editing # 0
  /\ \E field \in DOMAIN FormValues :
     \E value \in FormValues[field] :
       editor' = [editor EXCEPT !.formData[field] = value]

\* handleSubmit: a wait of a second and a line in the console, then onSave,
\* which is handleTransactionUpdated: the list is fetched again and the modal
\* closes
HandleSubmit ==
  /\ editor.editing # 0
  /\ editor.refreshTrigger < MaxSaves
  /\ editor' = [editor EXCEPT !.savedId = editor.editing,
                              !.savedForm = editor.formData,
                              !.refreshTrigger = editor.refreshTrigger + 1,
                              !.rows = fetchTransactions(editor.user),
                              !.editing = 0,
                              !.formData = NoForm]

\* onClose
CloseEdit ==
  /\ editor.editing # 0
  /\ editor' = [editor EXCEPT !.editing = 0, !.formData = NoForm]

\* the transactions page over a collection that holds transactions
EditInit == AnalyticsInit /\ today = "2024-06-15"

EditNext ==
  \/ MountPage /\ UNCHANGED <<parseVars, storeVars, analytics, users, auth, db, input, scanner, listing>>
  \/ OpenEdit /\ UNCHANGED <<parseVars, storeVars, analytics, users, auth, db, input, scanner, listing>>
  \/ HandleChange /\ UNCHANGED <<parseVars, storeVars, analytics, users, auth, db, input, scanner, listing>>
  \/ HandleSubmit /\ UNCHANGED <<parseVars, storeVars, analytics, users, auth, db, input, scanner, listing>>
  \/ CloseEdit /\ UNCHANGED <<parseVars, storeVars, analytics, users, auth, db, input, scanner, listing>>

EditSpec == EditInit /\ [][EditNext]_vars

\* ------------------------------------------------------------ OCRScanner

\* the images a run of ScanSpec processes at most
MaxScans == 1

\* transactionService.parseTransaction: it throws unless the answer is ok and
\* holds a transaction, and returns data.parsedTransactions[0], one object
parseTransaction(status, result) ==
  IF status # 200 THEN [threw |-> TRUE, isArray |-> FALSE, value |-> Threw]
  ELSE [threw |-> FALSE, isArray |-> FALSE, value |-> result]

\* the state processImage ends in; error "" stands for null
scanned(ocr, text, parsed, message, done) ==
  [isProcessing |-> FALSE, error |-> message, success |-> done,
   extractedText |-> text, ocr |-> ocr,
   parse |-> IF parsed.threw THEN "failed" ELSE "ok",
   passed |-> done,
   transaction |-> IF done THEN parsed.value ELSE Threw,
   scans |-> scanner.scans + 1]

\* processImage with a recognition that throws, or that finds no text
ProcessImageUnread ==
  /\ parse.status = 0
  /\ scanner.scans < MaxScans
  /\ \E ocr \in {"threw", "ok"}, text \in {"", " "} :
       scanner' =
         IF ocr = "threw"
         THEN [NoScan EXCEPT !.scans = scanner.scans + 1, !.ocr = "threw", !.error =
                 "Failed to process the image. Please try again with a clearer image."]
         ELSE [NoScan EXCEPT !.scans = scanner.scans + 1, !.ocr = "ok", !.extractedText = text, !.error =
                 "No text found in the image. Please ensure the receipt is clear and well-lit."]
  /\ UNCHANGED parseVars

\* processImage with a recognition that finds text: the text is parsed
ProcessImage ==
  /\ scanner.scans < MaxScans
  /\ ParseRequest
  /\ parse'.text.k = "str"
  /\ trim(parse'.text.s) # ""
  /\ LET parsed == parseTransaction(parse'.status, parse'.result) IN
     scanner' =
       IF parsed.threw
       THEN scanned("ok", parse'.text.s, parsed,
                    "Failed to parse transaction. Please try again or enter manually.",
                    FALSE)
       ELSE IF parsed.isArray
       THEN scanned("ok", parse'.text.s, parsed, "", TRUE)
       ELSE scanned("ok", parse'.text.s, parsed,
                    "Could not parse transaction data from the receipt. Please check the image quality.",
                    FALSE)

\* the receipt scanner
ScanInit == InitParse /\ InitStore

ScanNext ==
  \/ ProcessImageUnread /\ UNCHANGED <<storeVars, analytics, users, auth, db, input, editor, listing>>
  \/ ProcessImage /\ UNCHANGED <<storeVars, analytics, users, auth, db, input, editor, listing>>
  \/ ParseResponded /\ UNCHANGED <<storeVars, analytics, restVars>>

ScanSpec == ScanInit /\ [][ScanNext]_vars

\* ------------------------------------------------------------- GET /

\* validator.isInt(str, { min, max })
isInt(str, min, max) ==
  /\ str # ""
  /\ DigitRun(str, 1) = Len(str)
  /\ DigitsVal(str) >= min
  /\ DigitsVal(str) <= max

\* the chains of GET / on page, limit and type
listValidation(q) ==
  (IF Present(q.page) /\ ~isInt(toString(q.page), 1, 1000000)
   THEN {"Page must be a positive integer"} ELSE {})
    \cup (IF Present(q.limit) /\ ~isInt(toString(q.limit), 1, 100)
          THEN {"Limit must be between 1 and 100"} ELSE {})
    \cup (IF Present(q.type) /\ toString(q.type) \notin {"income", "expense"}
          THEN {"Type must be income or expense"} ELSE {})

\* parseInt(page) and parseInt(limit), with the defaults 1 and 50
pageOf(q) == IF Present(q.page) THEN DigitsVal(q.page.s) ELSE 1
limitOf(q) == IF Present(q.limit) THEN DigitsVal(q.limit.s) ELSE 50

\* Transaction.find(filter): filter = { userId } and the type, when given
listFilter(userId, q) ==
  {d \in transactions :
     /\ d.userId = userId
     /\ Truthy(q.type) => d.type = q.type.s}

\* sort({ date: -1, createdAt: -1 }): a before b is allowed
inOrder(a, b) ==
  LET dateA == getTime(a.date)
      dateB == getTime(b.date)
  IN \/ dateA > dateB
     \/ /\ dateA = dateB
        /\ getTime(a.createdAt) >= getTime(b.createdAt)

\* the orders the sort can return: documents with the same date and the same
\* createdAt come in any order, and not in the same order in every query
sorted(docs) ==
  {order \in [1..Cardinality(docs) -> docs] :
     /\ \A i, j \in DOMAIN order : i # j => order[i] # order[j]
     /\ \A i, j \in DOMAIN order : i < j => inOrder(order[i], order[j])}

\* Math.ceil(total / limit)
ceilDiv(total, limit) == (total + limit - 1) \div limit

\* skip(skip).limit(limit) of an order, countDocuments, and the pagination
listResult(order, page, limit) ==
  LET total == Len(order)
      skip == (page - 1) * limit
      totalPages == ceilDiv(total, limit)
  IN [status |-> 200,
      transactions |-> SubSeq(order, skip + 1, Min(skip + limit, total)),
      currentPage |-> page,
      totalPages |-> totalPages,
      totalTransactions |-> total,
      hasNextPage |-> page < totalPages,
      hasPrevPage |-> page > 1,
      limit |-> limit]

\* what a client asks GET / for
ListQueries ==
  {[page |-> p, limit |-> l, type |-> t] :
     p \in {JUndef, JStr("2"), JStr("3")},
     l \in {JUndef, JStr("1"), JStr("2")},
     t \in {JUndef, JStr("expense")}}
    \cup {[page |-> JStr("0"), limit |-> JStr("101"), type |-> JStr("all")]}

\* GET /: a client fetches the pages of one owner, limit and filter, one
\* after the other, and keeps them
GetTransactions(queries) ==
  \E user \in Users, q \in queries :
    LET details == listValidation(q)
        same == /\ listing.owner = user
                /\ listing.query.limit = q.limit
                /\ listing.query.type = q.type
    IN
    IF details # {}
    THEN UNCHANGED listing
    ELSE /\ IF listing.owner = "" THEN TRUE ELSE same
         /\ listing.pages[pageOf(q)].status = 0
         /\ IF pageOf(q) = 1 THEN TRUE
            ELSE listing.pages[pageOf(q) - 1].status = 200
         /\ \E order \in sorted(listFilter(user, q)) :
              listing' = [owner |-> user,
                          query |-> [q EXCEPT !.page = JUndef],
                          pages |-> [listing.pages EXCEPT ![pageOf(q)] =
                                       listResult(order, pageOf(q), limitOf(q))]]

\* the requests that filled the collection
ListBodies ==
  {[BaseBody EXCEPT !.type = JStr(t)] : t \in {"expense", "income"}}

\* the instant of the k-th request
stamp(k) == "2024-06-0" \o NatStr(k) \o "T12:00:00.000Z"

\* The collection holds up to MaxIds transactions, each created by the
\* request batch[i]: a POST /, or a POST /bulk whose items are stamped with
\* the same millisecond.
ListInit ==
  /\ ParserIdle
  /\ \E n \in 0..MaxIds :
     \E batch \in [1..n -> 1..n], owner \in [1..n -> Users], bodies \in [1..n -> ListBodies] :
       /\ \A i \in 1..n : batch[i] <= i
       /\ \A i, j \in 1..n : i < j => batch[i] <= batch[j]
       /\ \A i, j \in 1..n : batch[i] = batch[j] => owner[i] = owner[batch[j]]
       /\ transactions =
            {newDocument(bodies[i], i, owner[i], stamp(batch[i])) : i \in 1..n}
       /\ usedIds = 1..n
       /\ created = [i \in Ids |->
                       IF i <= n
                       THEN [by |-> owner[i], body |-> bodies[i],
                             untouched |-> TRUE]
                       ELSE NotCreated]
  /\ deleted = {}
  /\ request = NoRequest
  /\ response = NoResponse
  /\ requests = 0
  /\ analytics = NoAnalytics
  /\ RestIdle

ListNext ==
  \/ GetTransactions(ListQueries) /\ UNCHANGED <<parseVars, storeVars, analytics, users, auth, db, input, scanner, editor>>

\* the list over a collection that does not change
ListSpec == ListInit /\ [][ListNext]_vars

\* ------------------------------------------------- claims on the parser

\* C1: every parse request that passes the validation of the route is
\* answered with success and a parsed transaction, whatever the external
\* model call does; it is never answered with an error.
C1_ParseNeverFails ==
  parse.status \notin {0, 400} => parse.status = 200 /\ parse.result.ok

\* C2: with no credential configured (unset or the placeholder) the adapter
\* makes no external call and returns what simpleParseTransaction returns on
\* the same text.
C2_DegradedModeEquivalence ==
  (GEMINI_API_KEY \in {"", "your-gemini-api-key-here"}
     /\ parse.status \in {200, 500})
    => /\ parse.calls = 0
       /\ parse.result = simpleParseTransaction(parse.text, today)

C2_Witness ==
  /\ GEMINI_API_KEY = "your-gemini-api-key-here"
  /\ parse.status = 200
  /\ parse.text = JStr("Gas station $45")
  /\ parse.result.category = "Gas & Fuel"

\* C3: every parsed transaction returned, by the fallback parser or by the AI
\* path, has a category of the taxonomy, a type of income or expense and an
\* amount that is not negative.
C3_ParsedTransactionWellFormed ==
  parse.status = 200
    => /\ parse.result.category \in Taxonomy
       /\ parse.result.type \in {"income", "expense"}
       /\ parse.result.amount >= 0

C3_Witness ==
  /\ parse.status = 200
  /\ parse.calls = 1
  /\ parse.outcome.kind = "json"
  /\ parse.outcome.answer.amount = JNum(0 - 1250)
  /\ parse.outcome.answer.type = JStr("transfer")
  /\ parse.result.amount = 1250

\* ------------------------------------------- claims on the categories

\* the answer of the model was an object whose category is a text or is
\* absent, and the parsed transaction is made from it
AiPath ==
  /\ parse.status = 200
  /\ parse.calls = 1
  /\ parse.outcome.kind = "json"
  /\ parse.outcome.answer.shape = "obj"
  /\ parse.outcome.answer.category.k \in {"undef", "null", "str"}
  /\ parse.text.k = "str"

\* the categories the stated order of derivation allows for the category c
\* of the model and the text
Derived(c, text) ==
  IF ~(c.k = "str" /\ c.s # "") THEN {"Other"}
  ELSE IF c.s \in Taxonomy THEN {c.s}
  ELSE
    LET lc == toLowerCase(c.s)
        equal == {cat \in Taxonomy : toLowerCase(cat) = lc}
        near == {cat \in Taxonomy :
                   \/ includes(toLowerCase(cat), lc)
                   \/ includes(lc, toLowerCase(cat))}
    IN IF equal # {} THEN equal
       ELSE IF near # {} THEN near
       ELSE {detectCategory(toLowerCase(text))}

\* C17: in the AI path the category is derived from the model's category c:
\* c when it is a taxonomy entry; else the entry equal to c ignoring case;
\* else an entry that contains c or is contained in c; else, when c is not
\* empty, the keyword classification of the text; when c is empty or absent
\* the category is Other.
C17_CategoryDerivation ==
  AiPath => parse.result.category
              \in Derived(parse.outcome.answer.category, parse.text.s)

\* the category enhanceTransaction gives for the category c of the model
Normalized(c) ==
  enhanceTransaction([parse.outcome.answer EXCEPT !.category = c],
                     parse.text, today).category

\* C18: the normalization of the category is idempotent: normalizing the
\* category of the parsed transaction again gives the same category.
C18_NormalizationIdempotent ==
  AiPath => Normalized(JStr(parse.result.category)) = parse.result.category

\* a category outside the taxonomy and close to no entry was normalized by
\* the keywords of the text
C18_Witness ==
  /\ AiPath
  /\ parse.outcome.answer.category = JStr("Pets")
  /\ parse.text = JStr("Gas station $45")
  /\ parse.result.category = "Gas & Fuel"

\* the parsed transaction is the one of the fallback parser
FallbackPath ==
  /\ parse.status = 200
  /\ parse.text.k = "str"
  /\ parse.calls = 0 \/ parse.outcome.kind \in {"throw", "badjson"}

\* the places of the taxonomy whose keyword list hits the lower-cased text
Hits(lowerText) ==
  {i \in 1..Len(COMMON_CATEGORIES) :
     \E k \in 1..Len(categoryKeywords) :
       /\ categoryKeywords[k].cat = COMMON_CATEGORIES[i]
       /\ SomeKeyword(categoryKeywords[k].keywords, lowerText)}

C20_FirstInTaxonomyOrder ==
  FallbackPath
    => LET hits == Hits(toLowerCase(parse.text.s)) IN
       parse.result.category
         = IF hits = {} THEN "Other"
           ELSE COMMON_CATEGORIES[CHOOSE i \in hits : \A j \in hits : i <= j]

\* the value, in hundredths, of the first run of digits of the text with its
\* fraction of one or two digits; 0 when the text has no digit
FirstNumber(text) ==
  LET digits == {i \in 1..Len(text) : IsDigit(CharAt(text, i))} IN
  IF digits = {} THEN 0
  ELSE
    LET d == CHOOSE i \in digits : \A j \in digits : i <= j
        run == DigitRun(text, d)
        e == d + run
        frac == IF e < Len(text) /\ CharAt(text, e) = "."
                THEN DigitRun(text, e + 1) ELSE 0
    IN DigitsVal(SubSeq(text, d, e - 1)) * 100
       + (IF frac = 0 THEN 0
          ELSE IF frac = 1 THEN DigitVal(CharAt(text, e + 1)) * 10
          ELSE DigitsVal(SubSeq(text, e + 1, e + 2)))

\* C21: the amount of the fallback parser is the value of the first run of
\* digits of the text together with its fraction of one or two digits when
\* present, a currency glyph before it ignored; it is 0 when the text has no
\* digit, and later numbers never affect it.
C21_AmountIsFirstNumber ==
  FallbackPath => parse.result.amount = FirstNumber(parse.text.s)

\* -------------------------------------------------- claims on the store

\* C4: every stored transaction has the owner it was created with, after any
\* sequence of create, bulk create, update and delete requests.
C4_OwnerNeverChanges ==
  \A d \in transactions : d.userId = created[d._id].by

\* the request a step handles
Handles(ops) == request.op = "none" /\ request'.op \in ops

\* C5: GET, PUT and DELETE on a transaction of another user are answered with
\* the 404 of an id that does not exist, and leave the transaction as it is.
C5_ForeignIsNotFound ==
  [][\A d \in transactions :
       (Handles({"get", "update", "delete"}) /\ request'.id = d._id
          /\ request'.user # d.userId)
         => (response' = notFound /\ d \in transactions')]_vars

\* C6: every stored transaction has an amount above zero and a type of income
\* or expense.
C6_StoredAmountPositive ==
  \A d \in transactions : d.amount > 0 /\ d.type \in {"income", "expense"}

\* a field that is missing or blank
Blank(value) ==
  value.k \in {"undef", "null"} \/ (value.k = "str" /\ trim(value.s) = "")

\* The fields of a body break a constraint of a transaction; partial is TRUE
\* for an update, where a field may be left out.
BreaksConstraint(b, partial) ==
  \/ (~partial \/ Present(b.description)) /\ Blank(b.description)
  \/ (~partial \/ Present(b.category)) /\ Blank(b.category)
  \/ b.amount.k = "num" /\ b.amount.n <= 0
  \/ (~partial \/ Present(b.type))
       /\ toString(b.type) \notin {"income", "expense"}
  \/ b.description.k = "str" /\ Len(b.description.s) > 200
  \/ b.notes.k = "str" /\ Len(b.notes.s) > 500
  \/ b.date.k = "str" /\ newDate(b.date.s) = ""

\* C7: a create, bulk create or update whose fields break a constraint is
\* answered with 400 and a list of details, and the store stays as it was.
C7_ViolationsAnswered400 ==
  [][(\/ Handles({"create"}) /\ BreaksConstraint(request'.body, FALSE)
      \/ Handles({"update"}) /\ BreaksConstraint(request'.body, TRUE)
      \/ Handles({"bulk"})
           /\ \E i \in 1..Len(request'.items) :
                BreaksConstraint(request'.items[i], FALSE))
       => (/\ response'.status = 400
           /\ response'.details # {}
           /\ transactions' = transactions)]_vars

\* POST / would store the item: its chains pass and the document is valid
singleAccepted(b) ==
  /\ createValidation(b) = {}
  /\ documentErrors(candidate(sanitizeBody(b), nowInstant(today))) = {}

\* C8: a bulk create is accepted exactly when each of its items would be
\* accepted as a single create, and it is answered with 400 when the
\* validation of a single create rejects one of its items.
C8_BulkValidatesLikeCreate ==
  request.op = "bulk"
    => /\ response.status = 201
            <=> (/\ Len(request.items) >= 1
                 /\ \A i \in 1..Len(request.items) :
                      singleAccepted(request.items[i]))
       /\ (\E i \in 1..Len(request.items) :
             createValidation(request.items[i]) # {})
            => response.status = 400

\* what GET /:id returned for a transaction nobody updated since its creation
Fetched ==
  /\ request.op = "get"
  /\ response.status = 200
  /\ created[request.id].untouched

\* the fields a round trip compares but description, category and tags
SameOtherFields(d, b) ==
  /\ b.amount.k = "num" => d.amount = b.amount.n
  /\ d.type = toString(b.type)
  /\ Truthy(b.date) => d.date = b.date.s \o "T00:00:00.000Z"
  /\ Present(b.notes) => d.notes = b.notes
  /\ d.amount > 0

\* C9, as the specification states it: the record GET returns after a create
\* has the description, amount, type, category, date, tags and notes of the
\* create request, and a positive amount.
C9_RoundTripVerbatim ==
  Fetched
    => LET d == response.docs[1]
           b == created[request.id].body
       IN /\ d.description = toString(b.description)
          /\ d.category = toString(b.category)
          /\ d.tags = [i \in 1..Len(b.tags.items) |-> toString(b.tags.items[i])]
          /\ SameOtherFields(d, b)

\* C9, amended: the record GET returns has the description and category of
\* the create request without the white space around them, its tags without
\* the white space around them and in lower case, and its amount, type, date
\* and notes as they were sent; the amount is positive.
C9_RoundTripNormalised ==
  Fetched
    => LET d == response.docs[1]
           b == created[request.id].body
       IN /\ d.description = trim(toString(b.description))
          /\ d.category = trim(toString(b.category))
          /\ d.tags = [i \in 1..Len(b.tags.items) |->
                         toLowerCase(trim(toString(b.tags.items[i])))]
          /\ SameOtherFields(d, b)

C9_Witness ==
  /\ Fetched
  /\ created[request.id].body.description = JStr(" Rent ")
  /\ response.docs[1].description = "Rent"
  /\ response.docs[1].amount = 1250

\* C10: a DELETE by the owner removes the record and returns it; every later
\* DELETE or GET of that id is answered with 404 and changes nothing.
C10_DeletedStaysNotFound ==
  [][/\ \A d \in transactions :
          (Handles({"delete"}) /\ request'.id = d._id
             /\ request'.user = d.userId)
            => (/\ response'.status = 200
                /\ response'.docs = <<d>>
                /\ d \notin transactions')
     /\ \A id \in deleted :
          (Handles({"get", "delete"}) /\ request'.id = id)
            => (response' = notFound /\ transactions' = transactions)]_vars

\* ---------------------------------------------- claims on the analytics

\* the period the answer is for is the named period month
NamedMonth(q) ==
  /\ orDefault(q.period, "month") = "month"
  /\ ~(Truthy(q.startDate) /\ Truthy(q.endDate))

\* C11: GET /summary reports incomeChange and expenseChange only for the
\* named period month; for week, year, all and an explicit range of dates
\* both deltas are absent.
C11_ChangesOnlyForMonth ==
  (analytics.op = "summary" /\ analytics.status = 200
     /\ ~NamedMonth(analytics.query))
    => (analytics.result.incomeChange = JNull
          /\ analytics.result.expenseChange = JNull)

\* the totals of the period GET /summary compares with
PreviousTotal(type) ==
  sumAmount(ofType(matchFilter(analytics.user,
                               previousPeriodFilter(analytics.query,
                                                    nowInstant(today))),
                   type))

\* a delta is null or the text of a finite number
FiniteOrNull(v) ==
  \/ v = JNull
  \/ /\ v.k = "str"
     /\ v.s \notin {"NaN", "Infinity", "-Infinity"}
     /\ isFloatStr(v.s)

\* C12: when the previous period's income (expense) total is zero,
\* incomeChange (expenseChange) is null; the request is answered, and a delta
\* is never Infinity or NaN.
C12_ZeroPreviousGivesNull ==
  analytics.op = "summary"
    => /\ analytics.status \in {200, 400}
       /\ analytics.status = 200 =>
            /\ PreviousTotal("income") = 0
                 => analytics.result.incomeChange = JNull
            /\ PreviousTotal("expense") = 0
                 => analytics.result.expenseChange = JNull
            /\ FiniteOrNull(analytics.result.incomeChange)
            /\ FiniteOrNull(analytics.result.expenseChange)

\* income this month, none in the month before: the delta is null
C12_Witness ==
  /\ analytics.op = "summary"
  /\ analytics.status = 200
  /\ NamedMonth(analytics.query)
  /\ PreviousTotal("income") = 0
  /\ analytics.result.totalIncome > 0
  /\ analytics.result.incomeChange = JNull

\* the period and the window of an answer
AnsweredPeriod ==
  IF analytics.op = "summary" THEN analytics.result.period
  ELSE analytics.period
AnsweredRange ==
  IF analytics.op = "summary" THEN analytics.result.dateRange
  ELSE analytics.dateRange

\* the one rule of the window: the dates when both are given, else by period
SharedWindow(q, period, now) ==
  IF Truthy(q.startDate) /\ Truthy(q.endDate)
  THEN [gte |-> Bound(getTime(q.startDate.s \o "T00:00:00.000Z")),
        lte |-> Bound(getTime(q.endDate.s \o "T00:00:00.000Z"))]
  ELSE [gte |->
          CASE period = "week" -> Bound(getTime(now) - 7 * 24)
            [] period = "month" ->
                 Bound(dateOf(getFullYear(now), getMonth(now), 1))
            [] period = "year" -> Bound(dateOf(getFullYear(now), 0, 1))
            [] OTHER -> NoBound,
        lte |-> NoBound]

\* C13: GET /summary, /categories and /trends resolve their window by one
\* rule: the explicit dates when given, else week = the last 7 days, month =
\* from the 1st of the current month, year = from Jan 1, all = no lower
\* bound; the same period and dates give the same window in all three.
C13_SharedWindowRule ==
  (analytics.op \in {"summary", "categories", "trends"}
     /\ analytics.status = 200)
    => AnsweredRange = SharedWindow(analytics.query, AnsweredPeriod,
                                    nowInstant(today))

\* the transactions of the owner inside the window of the answer in hand
InWindow ==
  {d \in transactions :
     /\ d.userId = analytics.user
     /\ AnsweredRange.gte.has => getTime(d.date) >= AnsweredRange.gte.t
     /\ AnsweredRange.lte.has => getTime(d.date) <= AnsweredRange.lte.t}

\* the transactions of the window that fall into the bucket of a key
InBucket(key) == {d \in InWindow : dateKey(d.date, analytics.groupBy) = key}

\* C14: every bucket of GET /trends carries numeric income and expenses (0
\* when the bucket has no transaction of that type), equal to the sums of
\* the owner's amounts of that type in the bucket, and net = income -
\* expenses; each key appears once and the buckets ascend by key.
C14_TrendBuckets ==
  (analytics.op = "trends" /\ analytics.status = 200)
    => /\ \A i \in DOMAIN analytics.trends :
            LET b == analytics.trends[i] IN
            /\ b.income \in Nat
            /\ b.expenses \in Nat
            /\ b.income = sumAmount(ofType(InBucket(b.date), "income"))
            /\ b.expenses = sumAmount(ofType(InBucket(b.date), "expense"))
            /\ b.net = b.income - b.expenses
       /\ \A i, j \in DOMAIN analytics.trends :
            i < j => keyBefore(analytics.trends[i].date,
                               analytics.trends[j].date)
       /\ \A d \in InWindow :
            \E i \in DOMAIN analytics.trends :
              analytics.trends[i].date = dateKey(d.date, analytics.groupBy)

\* two buckets, the first with expenses only
C14_Witness ==
  /\ analytics.op = "trends"
  /\ analytics.status = 200
  /\ Len(analytics.trends) >= 2
  /\ analytics.trends[1].income = 0
  /\ analytics.trends[1].expenses > 0
  /\ analytics.trends[2].income > 0

\* the transactions GET /categories is asked about: the owner's, inside the
\* window, of the requested type unless it is both
Requested ==
  {d \in InWindow : analytics.type # "both" => d.type = analytics.type}

\* C15: GET /categories returns, for the owner's transactions in the window
\* (of the requested type unless type = both), one entry per distinct stored
\* category with the sum of its amounts, ordered by that sum descending; a
\* category outside the taxonomy appears under its own label.
C15_CategoryBreakdown ==
  (analytics.op = "categories" /\ analytics.status = 200)
    => LET entries == analytics.categories IN
       /\ {entries[i]._id : i \in DOMAIN entries}
            = {d.category : d \in Requested}
       /\ \A i, j \in DOMAIN entries :
            i < j => /\ entries[i]._id # entries[j]._id
                     /\ entries[i].total >= entries[j].total
       /\ \A i \in DOMAIN entries :
            entries[i].total
              = sumAmount({d \in Requested : d.category = entries[i]._id})

\* expenses in two categories, one of them outside the taxonomy, with income
\* in the same window
C15_Witness ==
  /\ analytics.op = "categories"
  /\ analytics.status = 200
  /\ analytics.type = "expense"
  /\ Len(analytics.categories) = 2
  /\ analytics.categories[2]._id = "Pets"
  /\ "Pets" \notin Taxonomy
  /\ \E d \in InWindow : d.type = "income"

\* C16: GET /summary returns totalIncome and totalExpenses equal to the
\* sums, and incomeCount and expenseCount equal to the numbers, of the
\* owner's income and expense transactions inside the window, with
\* netIncome = totalIncome - totalExpenses; an empty window gives zeros.
C16_SummaryTotals ==
  (analytics.op = "summary" /\ analytics.status = 200)
    => LET r == analytics.result
           income == {d \in InWindow : d.type = "income"}
           expenses == {d \in InWindow : d.type = "expense"}
       IN /\ r.totalIncome = sumAmount(income)
          /\ r.totalExpenses = sumAmount(expenses)
          /\ r.incomeCount = Cardinality(income)
          /\ r.expenseCount = Cardinality(expenses)
          /\ r.netIncome = r.totalIncome - r.totalExpenses
          /\ InWindow = {} =>
               /\ r.totalIncome = 0 /\ r.totalExpenses = 0
               /\ r.incomeCount = 0 /\ r.expenseCount = 0
               /\ r.netIncome = 0

\* an income and two expenses of the owner in the window, and a transaction
\* of another user or of another time in the collection
C16_Witness ==
  /\ analytics.op = "summary"
  /\ analytics.status = 200
  /\ analytics.result.incomeCount = 1
  /\ analytics.result.expenseCount = 1
  /\ analytics.result.netIncome > 0
  /\ transactions \ InWindow # {}

\* an empty window over a collection that is not empty
C16_WitnessEmpty ==
  /\ analytics.op = "summary"
  /\ analytics.status = 200
  /\ InWindow = {}
  /\ \E d \in transactions : d.userId = analytics.user

\* ------------------------------------------ claims on the authentication

\* the header carries a token that jwt.verify accepts
Verifies(header) ==
  /\ header.words = 2
  /\ header.token.form = "signed"
  /\ header.token.secret
  /\ ~header.token.expired

\* the token names a user of the collection
Resolves(header) == \E u \in users : u._id = header.token.userId

HandlerRan == request.op # "none" \/ analytics.op # "none"

Answered(status, message) == auth.status = status /\ auth.message = message

\* C22: a handler of /api/transactions or /api/analytics runs, and the
\* collection changes, only in a request whose token verifies and names an
\* existing user, and it runs for that user; a request without a token is
\* answered 401, one with a malformed token 403 "Invalid token", one with an
\* expired token 403 "Token expired", and one with the token of a user that
\* is not in the collection 401.
C22_ProtectedRoutes ==
  [][/\ (HandlerRan' /\ ~HandlerRan) \/ transactions' # transactions
          => /\ Verifies(auth'.header)
             /\ Resolves(auth'.header)
             /\ auth'.header.token.userId
                  = (IF request'.op # "none" THEN request'.user
                     ELSE analytics'.user)
     /\ auth'.op = "protected" /\ auth.op = "none"
          => /\ auth'.header.words < 2 => Answered(401, "No token provided")'
             /\ auth'.header.words = 2 /\ auth'.header.token.form = "malformed"
                  => Answered(403, "Invalid token")'
             /\ auth'.header.words = 2 /\ auth'.header.token.form = "signed"
                  /\ auth'.header.token.secret /\ auth'.header.token.expired
                  => Answered(403, "Token expired")'
             /\ Verifies(auth'.header) /\ ~Resolves(auth'.header)
                  /\ ~auth'.findFails
                  => Answered(401, "User not found")']_vars

\* a token that verifies names a user that is gone: 401, no handler ran
C22_Witness ==
  /\ auth.op = "protected"
  /\ Verifies(auth.header)
  /\ ~Resolves(auth.header)
  /\ Answered(401, "User not found")
  /\ ~HandlerRan

\* a request was admitted and its handler stored a transaction
C22_WitnessAdmitted ==
  /\ auth.next
  /\ request.op = "create"
  /\ response.status = 201

\* no two User documents share a googleId or an email
UniqueIdentities ==
  \A u, v \in users :
    u._id # v._id => u.googleId # v.googleId /\ u.email # v.email

\* C25: in every step, a User document is created only for an identity that
\* no stored document holds, every stored document keeps its googleId and
\* its email, and no two documents share a googleId or an email.
C25_IdentityIsStable ==
  [][/\ \A v \in users' :
          (\A u \in users : u._id # v._id)
            => \A u \in users : u.googleId # v.googleId
     /\ \A u \in users :
          \E v \in users' :
            v._id = u._id /\ v.googleId = u.googleId /\ v.email = u.email
     /\ UniqueIdentities']_vars

\* --------------------------------------------------- claims on the start

C24_Provenance ==
  /\ input.held
       => /\ confirmBody(input.parsed).rawInput = input.text
          /\ confirmBody(input.parsed).aiParsed.k = "bool"
  /\ input.sent /\ response.status = 201
       => /\ response.docs[1].aiParsed
          /\ response.docs[1].rawInput = input.text
  /\ ~input.sent /\ request.op = "create" /\ response.status = 201
       => ~response.docs[1].aiParsed

\* C27: a confirmation of a parsed transaction, sent as it was returned,
\* creates a transaction: it is answered 201.
C27_ConfirmCreates == input.sent => response.status = 201

\* ------------------------------------- claims on the month's comparison

\* the calendar months since year 0 of an instant
monthNumber(date) == getFullYear(date) * 12 + getMonth(date)

\* the owner's transactions dated in the calendar month that lies back
\* months before the month of the request
OfMonth(back) ==
  {d \in transactions :
     /\ d.userId = analytics.user
     /\ monthNumber(d.date) = monthNumber(nowInstant(today)) - back}

\* C26: for the named period month, the deltas of GET /summary compare with
\* the totals of every transaction of the owner dated in the previous
\* calendar month, and the totals count every transaction of the owner dated
\* in the current month.
C26_WholePreviousMonth ==
  (analytics.op = "summary" /\ analytics.status = 200
     /\ NamedMonth(analytics.query))
    => LET r == analytics.result IN
       /\ r.incomeChange
            = change(r.totalIncome, sumAmount(ofType(OfMonth(1), "income")))
       /\ r.expenseChange
            = change(r.totalExpenses, sumAmount(ofType(OfMonth(1), "expense")))
       /\ OfMonth(0) \subseteq InWindow

\* ------------------------------------------ claims on the edit dialog

\* C28: after a save in the edit dialog and the refresh of the list, the
\* stored transaction with the id that was edited holds the description,
\* category, amount, type and date of the form.
C28_SaveUpdatesRecord ==
  editor.savedId # 0
    => \A d \in transactions :
         d._id = editor.savedId
           => formOf(transformed(d)) = editor.savedForm

\* --------------------------------------- claims on the receipt scanner

\* C29: when the recognition yields text that is not blank and the parse
\* request succeeds with a parsed transaction, the scanner ends with success
\* true, error null and not processing, and has passed that transaction to
\* onTransactionParsed; it ends with an error only when the recognition or
\* the parse request failed.
C29_ScanSucceeds ==
  /\ (scanner.ocr = "ok" /\ trim(scanner.extractedText) # ""
        /\ scanner.parse = "ok")
       => /\ scanner.success
          /\ scanner.error = ""
          /\ ~scanner.isProcessing
          /\ scanner.passed
  /\ scanner.error # ""
       => \/ scanner.ocr = "threw"
          \/ trim(scanner.extractedText) = ""
          \/ scanner.parse = "failed"

\* ---------------------------------------------------- claims on the list

\* the transactions of the owner that pass the filter of the pages kept
Matching ==
  {d \in transactions :
     /\ d.userId = listing.owner
     /\ listing.query.type # JUndef => d.type = listing.query.type.s}

\* the pages 1..totalPages are all fetched
AllFetched ==
  /\ listing.pages[1].status = 200
  /\ listing.pages[1].totalPages <= MaxPage
  /\ \A p \in 1..listing.pages[1].totalPages : listing.pages[p].status = 200

\* the places of a transaction in the pages 1..totalPages
Places(d) ==
  {pi \in (1..MaxPage) \X (1..MaxIds) :
     /\ pi[1] <= listing.pages[1].totalPages
     /\ pi[2] \in DOMAIN listing.pages[pi[1]].transactions
     /\ listing.pages[pi[1]].transactions[pi[2]] = d}

\* C30: over a collection that does not change, the pages 1..totalPages of
\* one owner, filter and limit hold every matching transaction exactly once
\* and nothing else; in every page totalPages = ceil(totalTransactions /
\* limit), hasNextPage is currentPage < totalPages, hasPrevPage is
\* currentPage > 1, and a page beyond totalPages is empty.
C30_PagesPartition ==
  /\ \A p \in 1..MaxPage :
       LET a == listing.pages[p] IN
       a.status = 200
         => /\ a.currentPage = p
            /\ a.totalTransactions = Cardinality(Matching)
            /\ a.totalPages * a.limit >= a.totalTransactions
            /\ a.totalPages > 0
                 => (a.totalPages - 1) * a.limit < a.totalTransactions
            /\ a.hasNextPage = (a.currentPage < a.totalPages)
            /\ a.hasPrevPage = (a.currentPage > 1)
            /\ p > a.totalPages => a.transactions = <<>>
            /\ \A i \in DOMAIN a.transactions : a.transactions[i] \in Matching
  /\ AllFetched => \A d \in Matching : Cardinality(Places(d)) = 1

====
